---- MODULE Spec2Model ----
(***************************************************************************)
(* The session store of the chat proxy (src/chat_manager.py, ChatManager)  *)
(* as a state machine: the in-memory cache active_sessions, the storage    *)
(* directory of <chat_id>.json files, and the wall clock the timestamps    *)
(* are read from.  One action per store operation, plus the environment:   *)
(* process restart, a crash in the middle of a file write, and (in         *)
(* SpecDir only) files put into the storage directory by someone else.     *)
(***************************************************************************)
EXTENDS Integers, Sequences, FiniteSets, TLC

VARIABLES
    max_messages,     \* ChatManager.max_messages (pairs kept), fixed at construction
    active_sessions,  \* ChatManager.active_sessions: chat_id -> <<>> (absent) or <<ChatSession>>
    files,            \* the storage directory: chat_id -> content of <chat_id>.json
    now,              \* the wall clock, in microseconds
    next_uuid,        \* how many identifiers uuid4 has handed out
    appended,         \* history: chat_id -> every message a successful add_message appended
    returned,         \* history: chat_id -> the session the last successful add_message returned
    op,               \* the last call: its name, arguments, exception and return value
    inflight          \* POST /chat requests inside chat_endpoint: slot -> where the handler stands

vars == <<max_messages, active_sessions, files, now, next_uuid, appended, returned, op,
          inflight>>

-----------------------------------------------------------------------------
(* Bounds of the model *)

MaxPairs == 2      \* max_messages ranges over 1..MaxPairs
MaxAppends == 4    \* add_message calls that write, over a behaviour of Spec
MaxClock == 1      \* clock ticks over a behaviour
MaxDirAppends == 1 \* add_message calls that write, over a behaviour of SpecDir
MaxPairAppends == 2 \* add_message calls that write, over a behaviour of SpecPair
MaxTrimPairs == 5    \* max_messages ranges over 1..MaxTrimPairs in SpecTrim
MaxTrimAppends == 24 \* add_message calls over a behaviour of SpecTrim
MaxChatAppends == 4  \* messages that requests append over a behaviour of SpecChat
MaxRoleAppends == 2  \* add_message calls that write, over a behaviour of SpecRole
MaxChatDirAppends == 2 \* messages that requests append over a behaviour of SpecChatDir
MaxErrAppends == 5   \* messages that requests append over a behaviour of SpecErr
MaxHttpAppends == 2  \* messages that requests append over a behaviour of SpecHttp
MaxClientAppends == 3 \* messages that requests append over a behaviour of SpecClient
MaxZeroAppends == 3  \* add_message calls that write, over a behaviour of SpecZero
MaxTwoAppends == 4   \* messages appended over a behaviour of SpecTwo

-----------------------------------------------------------------------------
(* Identifiers, inputs *)

\* str(uuid.uuid4()): the n-th identifier handed out; uuid4 never repeats one.
uuid4(n) == "uuid-" \o ToString(n)

\* The identifiers of the model: two that uuid4 hands out, in this order.
Uuids == {uuid4(1), uuid4(2)}

\* An identifier a caller may name that uuid4 never produces.
ForeignId == "bad-id"

ChatIds == Uuids \cup {ForeignId}

Models == {"model-x", "model-y"}

\* The k-th message appended in a behaviour: user and assistant take turns,
\* and every message has a content of its own.
TurnRole(k) == IF k % 2 = 1 THEN "user" ELSE "assistant"
TurnContent(k) == "m" \o ToString(k)

\* Optional[...]: None is the empty sequence, a value v is <<v>>.
None == <<>>
Some(v) == <<v>>

-----------------------------------------------------------------------------
(* Python sequences *)

\* seq[-n:] as Python computes it.  -0 is 0, so seq[-0:] is the whole list.
PySliceLast(seq, n) ==
    IF n = 0 THEN seq
    ELSE IF n >= Len(seq) THEN seq
    ELSE SubSeq(seq, Len(seq) - n + 1, Len(seq))

-----------------------------------------------------------------------------
(* datetime: a naive datetime is its number of microseconds since the      *)
(* model's epoch; isoformat writes the seconds and, only when it is not    *)
(* zero, the microsecond field.                                            *)

second(t) == t \div 1000000
microsecond(t) == t % 1000000

IsoText(s, us) ==
    "1970-01-01T00:00:" \o ToString(s)
        \o (IF us = 0 THEN "" ELSE "." \o ToString(us))

\* A plausible slip: isoformat(timespec="seconds") drops the microseconds.
isoformat_seconds(t) == IsoText(second(t), 0)

\* datetime.isoformat()
isoformat(t) == IsoText(second(t), microsecond(t))

\* The datetimes the clock can show.
ClockTimes == {k * 500000 : k \in 0..MaxClock}

\* datetime.fromisoformat(text): the datetime the text denotes, or ValueError.
\* Every text isoformat can write for a time of the clock is parsed back; the
\* other texts of the model ("", "not-a-date") are not ISO-8601.
fromisoformat(text) ==
    LET hits == {t \in ClockTimes : IsoText(second(t), microsecond(t)) = text}
    IN  IF hits = {} THEN [exc |-> "ValueError", val |-> 0]
        ELSE [exc |-> "", val |-> CHOOSE t \in hits : TRUE]

-----------------------------------------------------------------------------
(* JSON documents, as json.load returns them: a value is the pair of its   *)
(* Python type and its content.  A dict's content is a function from its   *)
(* keys.                                                                   *)

JStr(s) == <<"str", s>>
JNum(n) == <<"int", n>>
JList(seq) == <<"list", seq>>
JDict(fn) == <<"dict", fn>>

JType(v) == v[1]
JVal(v) == v[2]

Ok(v) == [exc |-> "", val |-> v]
Raise(e) == [exc |-> e, val |-> 0]

\* v[key] for a str key: only a dict can be indexed by a str.
PyGetItem(v, key) ==
    IF JType(v) = "dict"
    THEN IF key \in DOMAIN JVal(v) THEN Ok(JVal(v)[key]) ELSE Raise("KeyError")
    ELSE Raise("TypeError")

RECURSIVE SetToSeq(_)
SetToSeq(S) ==
    IF S = {} THEN <<>>
    ELSE LET x == CHOOSE y \in S : TRUE IN <<x>> \o SetToSeq(S \ {x})

\* "for msg in v": a list yields its elements, a dict its keys, a str its
\* characters (each again a str: one item stands for them), an int raises.
PyIter(v) ==
    CASE JType(v) = "list" -> Ok(JVal(v))
      [] JType(v) = "dict" -> Ok([i \in 1..Cardinality(DOMAIN JVal(v)) |->
                                   JStr(SetToSeq(DOMAIN JVal(v))[i])])
      [] JType(v) = "str"  -> Ok(IF JVal(v) = "" THEN <<>> ELSE <<JStr(JVal(v))>>)
      [] OTHER           -> Raise("TypeError")

\* datetime.fromisoformat(v): TypeError unless v is a str.
FromIsoValue(v) ==
    IF JType(v) # "str" THEN Raise("TypeError") ELSE fromisoformat(JVal(v))

\* pydantic's validation of a str field: ValidationError, a ValueError.
StrField(v) ==
    IF JType(v) = "str" THEN Ok(JVal(v)) ELSE Raise("ValueError")

\* Sequencing: an exception of r ends the evaluation, otherwise F goes on
\* with r's value.
Bind(r, F(_)) == IF r.exc # "" THEN Raise(r.exc) ELSE F(r.val)

-----------------------------------------------------------------------------
(* The storage directory.  The content of <chat_id>.json is absent, or a   *)
(* proper prefix of a document json.dump was writing (it opens with "{"    *)
(* and lacks the closing "}", or is empty), or a text that is no JSON, or  *)
(* the text of a JSON value.                                               *)

NoFile == [kind |-> "absent"]
Truncated == [kind |-> "truncated"]
Malformed == [kind |-> "malformed"]
JsonFile(value) == [kind |-> "json", doc |-> value]

\* json.load(f)
json_load(file) ==
    IF file.kind = "json" THEN Ok(file.doc) ELSE Raise("JSONDecodeError")

\* A save that forgets the last message of the session.
session_data_drop_last(session) ==
    JDict([chat_id    |-> JStr(session.chat_id),
           model      |-> JStr(session.model),
           created_at |-> JStr(isoformat(session.created_at)),
           updated_at |-> JStr(isoformat(session.updated_at)),
           messages   |-> JList([i \in 1..(Len(session.messages) - 1) |->
                JDict([role      |-> JStr(session.messages[i].role),
                       content   |-> JStr(session.messages[i].content),
                       timestamp |-> JStr(isoformat(session.messages[i].timestamp))])])])

\* A save that writes the model where the chat_id belongs.
session_data_model_as_id(session) ==
    JDict([chat_id    |-> JStr(session.model),
           model      |-> JStr(session.model),
           created_at |-> JStr(isoformat(session.created_at)),
           updated_at |-> JStr(isoformat(session.updated_at)),
           messages   |-> JList([i \in 1..Len(session.messages) |->
                JDict([role      |-> JStr(session.messages[i].role),
                       content   |-> JStr(session.messages[i].content),
                       timestamp |-> JStr(isoformat(session.messages[i].timestamp))])])])

\* session_data of _save_session_to_file: the dict that is dumped.
session_data(session) ==
    JDict([chat_id    |-> JStr(session.chat_id),
           model      |-> JStr(session.model),
           created_at |-> JStr(isoformat(session.created_at)),
           updated_at |-> JStr(isoformat(session.updated_at)),
           messages   |-> JList([i \in 1..Len(session.messages) |->
                JDict([role      |-> JStr(session.messages[i].role),
                       content   |-> JStr(session.messages[i].content),
                       timestamp |-> JStr(isoformat(session.messages[i].timestamp))])])])

\* A save that leaves a file alone once it exists (open(file_path, 'x')).
save_unless_exists(dir, session) ==
    IF dir[session.chat_id].kind = "absent"
    THEN [dir EXCEPT ![session.chat_id] = JsonFile(session_data(session))]
    ELSE dir

\* A store that keeps one file: a save removes the file of every other session.
save_as_only_file(dir, session) ==
    [id \in DOMAIN dir |->
        IF id = session.chat_id THEN JsonFile(session_data(session)) ELSE NoFile]

\* _save_session_to_file: the directory after the write.  The file is named
\* after session.chat_id and is overwritten whole.
save_session_to_file(dir, session) ==
    [dir EXCEPT ![session.chat_id] = JsonFile(session_data(session))]

\* A loader that leaves the timestamp to ChatMessage's default_factory,
\* datetime.now: the message is stamped with the time of the load.
LoadMessage_stamped_on_load(msg) ==
    Bind(PyGetItem(msg, "role"), LAMBDA role :
    Bind(PyGetItem(msg, "content"), LAMBDA content :
    Bind(StrField(role), LAMBDA r :
    Bind(StrField(content), LAMBDA c :
    Ok([role |-> r, content |-> c, timestamp |-> now + 1])))))

\* ChatMessage(role=msg["role"], content=msg["content"],
\*             timestamp=datetime.fromisoformat(msg["timestamp"]))
LoadMessage(msg) ==
    Bind(PyGetItem(msg, "role"), LAMBDA role :
    Bind(PyGetItem(msg, "content"), LAMBDA content :
    Bind(PyGetItem(msg, "timestamp"), LAMBDA ts :
    Bind(FromIsoValue(ts), LAMBDA t :
    Bind(StrField(role), LAMBDA r :
    Bind(StrField(content), LAMBDA c :
    Ok([role |-> r, content |-> c, timestamp |-> t])))))))

\* The list comprehension over session_data["messages"], in order.
RECURSIVE LoadMessages(_)
LoadMessages(items) ==
    IF items = <<>> THEN Ok(<<>>)
    ELSE Bind(LoadMessage(Head(items)), LAMBDA m :
         Bind(LoadMessages(Tail(items)), LAMBDA rest :
         Ok(<<m>> \o rest)))

\* The body of the try block of _load_session_from_file after json.load:
\* the ChatSession the document denotes, or the first exception raised.
DecodeSession(doc) ==
    Bind(PyGetItem(doc, "messages"), LAMBDA ms :
    Bind(PyIter(ms), LAMBDA items :
    Bind(LoadMessages(items), LAMBDA messages :
    Bind(PyGetItem(doc, "chat_id"), LAMBDA chat_id :
    Bind(PyGetItem(doc, "model"), LAMBDA model :
    Bind(PyGetItem(doc, "created_at"), LAMBDA created :
    Bind(FromIsoValue(created), LAMBDA created_at :
    Bind(PyGetItem(doc, "updated_at"), LAMBDA updated :
    Bind(FromIsoValue(updated), LAMBDA updated_at :
    Bind(StrField(chat_id), LAMBDA cid :
    Bind(StrField(model), LAMBDA mdl :
    Ok([chat_id |-> cid, model |-> mdl, messages |-> messages,
        created_at |-> created_at, updated_at |-> updated_at]))))))))))))

\* An except clause that forgets KeyError.
CaughtWithoutKeyError == {"JSONDecodeError", "ValueError"}

\* The exceptions _load_session_from_file catches (KeyError and
\* json.JSONDecodeError by name, pydantic's ValidationError as a ValueError).
Caught == {"JSONDecodeError", "KeyError", "ValueError"}

\* A loader that does not check that the file exists and lets the open fail.
load_session_no_exists_check(dir, chat_id) ==
    IF dir[chat_id].kind = "absent"
    THEN [exc |-> "FileNotFoundError", ret |-> None, loaded |-> FALSE]
    ELSE LET r == Bind(json_load(dir[chat_id]), DecodeSession)
         IN  IF r.exc = "" THEN [exc |-> "", ret |-> Some(r.val), loaded |-> TRUE]
             ELSE IF r.exc \in Caught THEN [exc |-> "", ret |-> None, loaded |-> FALSE]
             ELSE [exc |-> r.exc, ret |-> None, loaded |-> FALSE]

\* _load_session_from_file: what it returns or raises, and whether it put
\* the session into active_sessions (loaded).
load_session_from_file(dir, chat_id) ==
    IF dir[chat_id].kind = "absent" THEN [exc |-> "", ret |-> None, loaded |-> FALSE]
    ELSE LET r == Bind(json_load(dir[chat_id]), DecodeSession)
         IN  IF r.exc = "" THEN [exc |-> "", ret |-> Some(r.val), loaded |-> TRUE]
             ELSE IF r.exc \in Caught THEN [exc |-> "", ret |-> None, loaded |-> FALSE]
             ELSE [exc |-> r.exc, ret |-> None, loaded |-> FALSE]

-----------------------------------------------------------------------------
(* The store's operations as functions of the state they read *)

\* A lookup that always goes to the file, also for a cached session.
get_session_disk_first(cache, dir, chat_id) ==
    LET r == load_session_from_file(dir, chat_id)
    IN  IF r.loaded THEN r
        ELSE IF cache[chat_id] # None
             THEN [exc |-> "", ret |-> cache[chat_id], loaded |-> FALSE]
             ELSE r

\* get_session: the cached session if there is one, else the loader's result.
get_session_result(cache, dir, chat_id) ==
    IF cache[chat_id] # None
    THEN [exc |-> "", ret |-> cache[chat_id], loaded |-> FALSE]
    ELSE load_session_from_file(dir, chat_id)

\* A lookup that finds no session empties the cache.
CacheClearedOnMiss(cache, chat_id, r) ==
    IF r.loaded THEN [cache EXCEPT ![chat_id] = r.ret]
    ELSE IF r.ret = None THEN [id \in DOMAIN cache |-> None]
    ELSE cache

\* A cache of one entry: a load puts the session in and every other out.
CacheOfOne(cache, chat_id, r) ==
    IF r.loaded THEN [id \in DOMAIN cache |-> IF id = chat_id THEN r.ret ELSE None]
    ELSE cache

\* active_sessions after a lookup: a successful load inserts the session.
CacheAfterGet(cache, chat_id, r) ==
    IF r.loaded THEN [cache EXCEPT ![chat_id] = r.ret] ELSE cache

\* A trim that keeps one message less than max_messages pairs.
trim_half_pair(messages, max_pairs) ==
    IF Len(messages) > max_pairs * 2 - 1
    THEN PySliceLast(messages, max_pairs * 2 - 1)
    ELSE messages

\* A trim that keeps one message more than max_messages pairs.
trim_one_more(messages, max_pairs) ==
    IF Len(messages) > max_pairs * 2 + 1
    THEN PySliceLast(messages, max_pairs * 2 + 1)
    ELSE messages

\* An add_message that never drops a message.
trim_never(messages, max_pairs) == messages

\* A trim that keeps the first messages instead of the last.
trim_keep_oldest(messages, max_pairs) ==
    IF Len(messages) > max_pairs * 2
    THEN SubSeq(messages, 1, max_pairs * 2)
    ELSE messages

\* Lines 86-88 of add_message: keep the last max_messages * 2 messages.
trim(messages, max_pairs) ==
    IF Len(messages) > max_pairs * 2
    THEN PySliceLast(messages, max_pairs * 2)
    ELSE messages

\* An add_message that leaves updated_at as it was.
appended_session_stale(session, role, content, t1, t2, max_pairs) ==
    [session EXCEPT
        !.messages = trim(Append(session.messages,
                                 [role |-> role, content |-> content, timestamp |-> t1]),
                          max_pairs)]

\* The session add_message builds: the message stamped t1 appended,
\* updated_at set to t2, then trimmed.
appended_session(session, role, content, t1, t2, max_pairs) ==
    [session EXCEPT
        !.messages = trim(Append(session.messages,
                                 [role |-> role, content |-> content, timestamp |-> t1]),
                          max_pairs),
        !.updated_at = t2]

\* A history that leaves out a last message that no reply has followed.
history_unanswered_dropped(session) ==
    LET n == IF session.messages # <<>>
                /\ session.messages[Len(session.messages)].role = "user"
             THEN Len(session.messages) - 1 ELSE Len(session.messages)
    IN  [i \in 1..n |->
            [role |-> session.messages[i].role, content |-> session.messages[i].content]]

\* A history that lists the newest message first.
history_newest_first(session) ==
    [i \in 1..Len(session.messages) |->
        [role |-> session.messages[Len(session.messages) + 1 - i].role,
         content |-> session.messages[Len(session.messages) + 1 - i].content]]

\* [{"role": msg.role, "content": msg.content} for msg in session.messages]
history_of(session) ==
    [i \in 1..Len(session.messages) |->
        [role |-> session.messages[i].role, content |-> session.messages[i].content]]

\* The dict get_session_info returns.
info_of(session) ==
    [chat_id |-> session.chat_id, model |-> session.model,
     message_count |-> Len(session.messages),
     created_at |-> isoformat(session.created_at),
     updated_at |-> isoformat(session.updated_at)]

\* A listing that names every identifier, also one that has no file.
stems_with_absent(dir) == DOMAIN dir

\* A listing taken from the cache instead of the directory.
stems_from_cache(dir) == {id \in DOMAIN dir : active_sessions[id] # None}

\* glob("*.json") over the directory, the stems.
stems(dir) == {id \in DOMAIN dir : dir[id].kind # "absent"}

\* What datetime.now() can return when the clock last showed t.
ClockAfter(t) == {t, t + 500000} \cap ClockTimes

RECURSIVE SumLen(_, _)
SumLen(f, S) ==
    IF S = {} THEN 0
    ELSE LET x == CHOOSE y \in S : TRUE IN Len(f[x]) + SumLen(f, S \ {x})

TotalAppends == SumLen(appended, ChatIds)

\* A call of the store: arg holds the arguments besides chat_id, loaded says
\* whether the call read the session from its file.
Call(name, chat_id, arg, exc, ret, loaded) ==
    [name |-> name, chat_id |-> chat_id, arg |-> arg, exc |-> exc, ret |-> ret,
     loaded |-> loaded]

\* The requests the server can hold at once, and a slot that holds none.
Slots == {1, 2}
Idle == [pc |-> "idle"]

-----------------------------------------------------------------------------
(* Initial state: ChatManager.__init__ on an empty storage directory *)

Init ==
    /\ max_messages \in 1..MaxPairs
    /\ active_sessions = [id \in ChatIds |-> None]
    /\ files = [id \in ChatIds |-> NoFile]
    /\ now = 0
    /\ next_uuid = 0
    /\ appended = [id \in ChatIds |-> <<>>]
    /\ returned = [id \in ChatIds |-> None]
    /\ op = Call("init", "", <<>>, "", None, FALSE)
    /\ inflight = [slot \in Slots |-> Idle]

-----------------------------------------------------------------------------
(* Actions *)

\* A create_session that also writes the file of the new session.
create_session_and_save(model) ==
    /\ next_uuid < Cardinality(Uuids)
    /\ \E t1 \in ClockAfter(now) : \E t2 \in ClockAfter(t1) :
         LET chat_id == uuid4(next_uuid + 1)
             session == [chat_id |-> chat_id, model |-> model, messages |-> <<>>,
                         created_at |-> t1, updated_at |-> t2]
         IN  /\ active_sessions' = [active_sessions EXCEPT ![chat_id] = Some(session)]
             /\ files' = save_session_to_file(files, session)
             /\ now' = t2
             /\ next_uuid' = next_uuid + 1
             /\ op' = Call("create_session", chat_id, <<model>>, "", Some(chat_id), FALSE)
    /\ UNCHANGED <<inflight, max_messages, appended, returned>>

\* create_session(model)
create_session(model) ==
    /\ next_uuid < Cardinality(Uuids)
    /\ \E t1 \in ClockAfter(now) : \E t2 \in ClockAfter(t1) :
         LET chat_id == uuid4(next_uuid + 1)
             session == [chat_id |-> chat_id, model |-> model, messages |-> <<>>,
                         created_at |-> t1, updated_at |-> t2]
         IN  /\ active_sessions' = [active_sessions EXCEPT ![chat_id] = Some(session)]
             /\ now' = t2
             /\ next_uuid' = next_uuid + 1
             /\ op' = Call("create_session", chat_id, <<model>>, "", Some(chat_id), FALSE)
    /\ UNCHANGED <<inflight, max_messages, files, appended, returned>>

\* get_session(chat_id)
get_session(chat_id) ==
    LET r == get_session_result(active_sessions, files, chat_id)
    IN  /\ active_sessions' = CacheAfterGet(active_sessions, chat_id, r)
        /\ op' = Call("get_session", chat_id, <<>>, r.exc, r.ret, r.loaded)
        /\ UNCHANGED <<inflight, max_messages, files, now, next_uuid, appended, returned>>

\* add_message(chat_id, role, content)
add_message(chat_id, role, content) ==
    LET r == get_session_result(active_sessions, files, chat_id)
    IN  IF r.exc # ""
        THEN /\ op' = Call("add_message", chat_id, <<role, content>>, r.exc, None, FALSE)
             /\ UNCHANGED <<inflight, max_messages, active_sessions, files, now, next_uuid,
                            appended, returned>>
        ELSE IF r.ret = None
        THEN /\ op' = Call("add_message", chat_id, <<role, content>>, "ValueError", None,
                           FALSE)
             /\ UNCHANGED <<inflight, max_messages, active_sessions, files, now, next_uuid,
                            appended, returned>>
        ELSE /\ \E t1 \in ClockAfter(now) : \E t2 \in ClockAfter(t1) :
                  LET session == appended_session(r.ret[1], role, content, t1, t2,
                                                  max_messages)
                  IN  /\ active_sessions' = [active_sessions EXCEPT ![chat_id] = Some(session)]
                      /\ files' = save_session_to_file(files, session)
                      /\ now' = t2
                      /\ appended' = [appended EXCEPT ![chat_id] =
                             Append(@, [role |-> role, content |-> content, timestamp |-> t1])]
                      /\ returned' = [returned EXCEPT ![chat_id] = Some(session)]
                      /\ op' = Call("add_message", chat_id, <<role, content>>, "",
                                    Some(session), r.loaded)
             /\ UNCHANGED <<inflight, max_messages, next_uuid>>

\* get_conversation_history(chat_id)
get_conversation_history(chat_id) ==
    LET r == get_session_result(active_sessions, files, chat_id)
    IN  /\ active_sessions' = CacheAfterGet(active_sessions, chat_id, r)
        /\ op' = Call("get_conversation_history", chat_id, <<>>, r.exc,
                      IF r.exc # "" \/ r.ret = None THEN <<>> ELSE history_of(r.ret[1]),
                      r.loaded)
        /\ UNCHANGED <<inflight, max_messages, files, now, next_uuid, appended, returned>>

\* list_sessions()
list_sessions ==
    /\ op' = Call("list_sessions", "", <<>>, "", Some(stems(files)), FALSE)
    /\ UNCHANGED <<inflight, max_messages, active_sessions, files, now, next_uuid, appended, returned>>

\* get_session_info(chat_id)
get_session_info(chat_id) ==
    LET r == get_session_result(active_sessions, files, chat_id)
    IN  /\ active_sessions' = CacheAfterGet(active_sessions, chat_id, r)
        /\ op' = Call("get_session_info", chat_id, <<>>, r.exc,
                      IF r.exc # "" \/ r.ret = None THEN None ELSE Some(info_of(r.ret[1])),
                      r.loaded)
        /\ UNCHANGED <<inflight, max_messages, files, now, next_uuid, appended, returned>>

\* The process ends and starts again: a new ChatManager with an empty
\* cache over the same storage directory; the requests it was handling end
\* with it.
restart ==
    /\ active_sessions' = [id \in ChatIds |-> None]
    /\ op' = Call("restart", "", <<>>, "", None, FALSE)
    /\ inflight' = [slot \in Slots |-> Idle]
    /\ UNCHANGED <<max_messages, files, now, next_uuid, appended, returned>>

\* The process dies inside the write of _save_session_to_file that an
\* add_message(chat_id, ..) has reached: open(.., "w") has emptied the file
\* and json.dump has written only a part of the document.  The process
\* starts again with an empty cache.
crash_in_save(chat_id) ==
    LET r == get_session_result(active_sessions, files, chat_id)
    IN  /\ r.exc = ""
        /\ r.ret # None
        /\ files' = [files EXCEPT ![r.ret[1].chat_id] = Truncated]
        /\ active_sessions' = [id \in ChatIds |-> None]
        /\ op' = Call("crash", chat_id, <<>>, "", None, FALSE)
        /\ inflight' = [slot \in Slots |-> Idle]
        /\ UNCHANGED <<max_messages, now, next_uuid, appended, returned>>

-----------------------------------------------------------------------------
(* Spec: every store operation on one session and on identifiers that     *)
(* have none, restart and crash, over a storage directory that only the    *)
(* store writes.                                                           *)

Reads ==
    \/ \E chat_id \in ChatIds : get_session(chat_id)
    \/ \E chat_id \in ChatIds : get_conversation_history(chat_id)
    \/ list_sessions
    \/ \E chat_id \in ChatIds : get_session_info(chat_id)

Next ==
    \/ \E model \in Models : next_uuid = 0 /\ create_session(model)
    \/ \E chat_id \in ChatIds :
          /\ TotalAppends < MaxAppends
          /\ add_message(chat_id, TurnRole(TotalAppends + 1), TurnContent(TotalAppends + 1))
    \/ Reads
    \/ restart
    \/ \E chat_id \in ChatIds : crash_in_save(chat_id)

Spec == Init /\ [][Next]_vars

-----------------------------------------------------------------------------
(* SpecTrim: one session that receives a long run of numbered turns, user  *)
(* and assistant alternating, with restarts and reloads in between.        *)

InitTrim ==
    /\ max_messages \in 1..MaxTrimPairs
    /\ active_sessions = [id \in ChatIds |-> None]
    /\ files = [id \in ChatIds |-> NoFile]
    /\ now = 0
    /\ next_uuid = 0
    /\ appended = [id \in ChatIds |-> <<>>]
    /\ returned = [id \in ChatIds |-> None]
    /\ op = Call("init", "", <<>>, "", None, FALSE)
    /\ inflight = [slot \in Slots |-> Idle]

NextTrim ==
    \/ next_uuid = 0 /\ create_session("model-x")
    \/ /\ TotalAppends < MaxTrimAppends
       /\ add_message(uuid4(1), TurnRole(TotalAppends + 1), TurnContent(TotalAppends + 1))
    \/ get_session(uuid4(1))
    \/ restart

SpecTrim == InitTrim /\ [][NextTrim]_vars

-----------------------------------------------------------------------------
(* SpecDir: the store over a storage directory that something else writes  *)
(* to as well: an older version, an editor, a copy that stopped half way.  *)
(* The file written is bad-id.json; no session is created, so the other    *)
(* identifiers stay unknown to the store.                                  *)

\* f without the key k.
Without(f, k) == [x \in (DOMAIN f) \ {k} |-> f[x]]

\* A message and a session document as the store writes them.
ForeignMessage ==
    [role |-> JStr("user"), content |-> JStr("hi"), timestamp |-> JStr(isoformat(0))]

ForeignSession(chat_id, messages) ==
    [chat_id |-> JStr(chat_id), model |-> JStr("model-y"),
     created_at |-> JStr(isoformat(0)), updated_at |-> JStr(isoformat(0)),
     messages |-> messages]

\* Documents with one defect each.  The first group lacks a field the loader
\* reads; the second holds a value that is no ISO-8601 text or no str where
\* pydantic wants one; the third is JSON of another shape.
LacksField ==
    {JsonFile(JDict(Without(ForeignSession(ForeignId, JList(<<JDict(ForeignMessage)>>)), k))) :
        k \in {"messages", "updated_at"}}
    \cup {JsonFile(JDict(ForeignSession(ForeignId,
                JList(<<JDict(Without(ForeignMessage, k))>>)))) :
              k \in {"timestamp"}}

BadValue ==
    {JsonFile(JDict(ForeignSession(ForeignId,
        JList(<<JDict([ForeignMessage EXCEPT !.timestamp = JStr("not-a-date")])>>)))),
     JsonFile(JDict(ForeignSession(ForeignId,
        JList(<<JDict([ForeignMessage EXCEPT !.role = JNum(1)])>>))))}

WrongShape ==
    {JsonFile(JList(<<>>)),
     JsonFile(JDict(ForeignSession(ForeignId, JNum(5)))),
     JsonFile(JDict([ForeignSession(ForeignId, JList(<<>>)) EXCEPT !.created_at = JNum(0)]))}

\* Session documents that load.
WellFormed ==
    {JsonFile(JDict(ForeignSession(ForeignId, JList(<<JDict(ForeignMessage)>>))))}

ForeignFiles ==
    {Truncated, Malformed} \cup LacksField \cup BadValue \cup WrongShape \cup WellFormed

\* Something other than the store writes <chat_id>.json.
external_write(chat_id, file) ==
    /\ files' = [files EXCEPT ![chat_id] = file]
    /\ op' = Call("external_write", chat_id, <<>>, "", None, FALSE)
    /\ UNCHANGED <<inflight, max_messages, active_sessions, now, next_uuid, appended, returned>>

NextDir ==
    \/ \E chat_id \in ChatIds :
          /\ TotalAppends < MaxDirAppends
          /\ add_message(chat_id, TurnRole(TotalAppends + 1), TurnContent(TotalAppends + 1))
    \/ Reads
    \/ restart
    \/ \E file \in ForeignFiles : external_write(ForeignId, file)

SpecDir == Init /\ [][NextDir]_vars

-----------------------------------------------------------------------------
(* SpecPair: two sessions side by side in one process, over a storage      *)
(* directory that only the store writes.                                   *)

NextPair ==
    \/ \E model \in Models : create_session(model)
    \/ \E chat_id \in Uuids :
          /\ TotalAppends < MaxPairAppends
          /\ add_message(chat_id, TurnRole(TotalAppends + 1), TurnContent(TotalAppends + 1))
    \/ \E chat_id \in Uuids : get_session(chat_id)
    \/ restart

SpecPair == Init /\ [][NextPair]_vars

-----------------------------------------------------------------------------
(* SpecRole: the store driven directly over one session, with the role     *)
(* argument of add_message ranging over texts.  ChatMessage declares       *)
(* role: str, and add_message hands its argument to ChatMessage as it is.  *)

\* Values of the role argument: the two the endpoint passes and one more.
RoleArgs == {"user", "assistant", "system"}

NextRole ==
    \/ \E model \in Models : next_uuid = 0 /\ create_session(model)
    \/ \E role \in RoleArgs :
          /\ TotalAppends < MaxRoleAppends
          /\ add_message(uuid4(1), role, TurnContent(TotalAppends + 1))
    \/ get_session(uuid4(1))
    \/ restart

SpecRole == Init /\ [][NextRole]_vars

-----------------------------------------------------------------------------
(* POST /chat.  A text is the sequence of its characters: " " is the        *)
(* whitespace of the model, and a word such as "m1" stands for a run of     *)
(* characters that are not whitespace.                                      *)

RECURSIVE lstrip(_)
lstrip(text) ==
    IF text # <<>> /\ Head(text) = " " THEN lstrip(Tail(text)) ELSE text

RECURSIVE rstrip(_)
rstrip(text) ==
    IF text # <<>> /\ text[Len(text)] = " "
    THEN rstrip(SubSeq(text, 1, Len(text) - 1))
    ELSE text

\* str.strip()
strip(text) == rstrip(lstrip(text))

\* ChatRequest.message: min_length=1, then validate_message, whose return
\* value becomes the field.
validate_message(v) ==
    IF Len(v) < 1 THEN Raise("ValidationError")
    ELSE IF strip(v) = <<>> THEN Raise("ValidationError")
    ELSE Ok(strip(v))

\* The message field of the body of POST /chat: None when the body has no
\* message (Field(...): required), else the text, which goes through
\* min_length and validate_message.
ChatRequest_message(field) ==
    IF field = None THEN Raise("ValidationError") ELSE validate_message(field[1])

\* What client.chat.completions.create can do: return a completion whose
\* first choice has a content (a text, possibly empty), return one without
\* choices, or raise an exception.  The text of the exception, str(e), is a
\* sequence of pieces: the HTTP status the upstream answered with, as the
\* client library prints it, and what the upstream's error message quotes,
\* such as the name of the model.
Completion(content) == [kind |-> "content", content |-> content]
NoChoices == [kind |-> "no_choices"]
ClientRaises(text) == [kind |-> "raises", text |-> text]

\* The keywords that "keyword in piece" or "keyword in piece.lower()" finds
\* in a piece of text, among the keywords the code looks for.
KeywordsIn(piece) ==
    CASE piece = "401" -> {"401"}
      [] piece = "429" -> {"429"}
      [] piece = "404" -> {"404"}
      [] piece = "400" -> {"400"}
      [] piece = "Invalid API key or unauthorized access" -> {"invalid", "unauthorized"}
      [] piece = "Rate limit exceeded" -> {"rate limit"}
      [] piece = "' not found or not available" -> {"not found"}
      [] piece = "Invalid request format or parameters" -> {"invalid"}
      [] piece = "invalid-model" -> {"invalid"}
      [] OTHER -> {}

\* keyword in text, for a text in pieces.
Contains(text, keyword) == \E i \in 1..Len(text) : keyword \in KeywordsIn(text[i])

\* The text of the OpenRouterError that lines 97-108 make of the client's
\* exception: the first branch whose keyword the text contains.
UpstreamErrorText(text, model) ==
    IF Contains(text, "401") \/ Contains(text, "unauthorized")
    THEN <<"Invalid API key or unauthorized access">>
    ELSE IF Contains(text, "429") \/ Contains(text, "rate limit")
    THEN <<"Rate limit exceeded">>
    ELSE IF Contains(text, "404") \/ Contains(text, "not found")
    THEN <<"Model '", model, "' not found or not available">>
    ELSE IF Contains(text, "400") \/ Contains(text, "bad request")
    THEN <<"Invalid request format or parameters">>
    ELSE <<"OpenRouter API error: ">> \o text

\* The result of call_openrouter: the exception it raised (exc, "" for none)
\* with its text, or the reply (val), and whether
\* client.chat.completions.create was called.
ClientResult(exc, val, called) == [exc |-> exc, val |-> val, called |-> called]

\* A call_openrouter that hands on whatever content the completion holds.
call_openrouter_any_content(message, api_key, model, completion) ==
    IF strip(message) = <<>> THEN ClientResult("ValueError", <<"Message cannot be empty">>, FALSE)
    ELSE IF api_key = "" THEN ClientResult("ValueError", <<"API key is required">>, FALSE)
    ELSE IF model = "" THEN ClientResult("ValueError", <<"Model is required">>, FALSE)
    ELSE CASE completion.kind = "no_choices" ->
                ClientResult("OpenRouterError",
                             <<"No response received from OpenRouter API">>, TRUE)
           [] completion.kind = "raises" ->
                ClientResult("OpenRouterError", UpstreamErrorText(completion.text, model),
                             TRUE)
           [] completion.kind = "content" -> ClientResult("", completion.content, TRUE)

\* call_openrouter: the reply, or the exception with its text.  The three
\* checks of lines 40-47 come before the client is made; the reply is
\* completion.choices[0].message.content as it came.
call_openrouter(message, api_key, model, completion) ==
    IF strip(message) = <<>> THEN ClientResult("ValueError", <<"Message cannot be empty">>, FALSE)
    ELSE IF api_key = "" THEN ClientResult("ValueError", <<"API key is required">>, FALSE)
    ELSE IF model = "" THEN ClientResult("ValueError", <<"Model is required">>, FALSE)
    ELSE CASE completion.kind = "no_choices" ->
                ClientResult("OpenRouterError",
                             <<"No response received from OpenRouter API">>, TRUE)
           [] completion.kind = "raises" ->
                ClientResult("OpenRouterError", UpstreamErrorText(completion.text, model),
                             TRUE)
           [] completion.kind = "content" ->
                IF completion.content = <<>>
                THEN ClientResult("OpenRouterError",
                                  <<"Empty response received from OpenRouter API">>, TRUE)
                ELSE ClientResult("", completion.content, TRUE)

\* config.get('openrouter_api_key') of a running server: validate_environment
\* refuses to start without OPENROUTER_API_KEY.
openrouter_api_key == "sk-or-key"

\* A payload that leaves out the message of the request.
upstream_messages_history_only(message, conversation_history) == conversation_history

\* The messages argument of client.chat.completions.create, lines 64-74: the
\* conversation history, then the message of the request, stripped.
upstream_messages(message, conversation_history) ==
    conversation_history \o <<[role |-> "user", content |-> strip(message)]>>

\* call_openrouter is a coroutine function whose body awaits nothing (the
\* OpenAI client it calls is the blocking one), so "await call_openrouter(..)"
\* never hands control back to the event loop: no other request runs while
\* one is inside chat_endpoint.
call_openrouter_awaits == TRUE
call_openrouter_suspends == FALSE

\* any(keyword in error_message.lower() for keyword in
\*     ['invalid', 'unauthorized', 'bad request'])
has_client_keyword(error_message) ==
    \E keyword \in {"invalid", "unauthorized", "bad request"} :
        Contains(error_message, keyword)

\* ErrorResponse(error=.., code=..).model_dump(): status has its default.
ErrorResponse(error, code) == [error |-> error, status |-> "error", code |-> code]

\* HTTPException(status_code=.., detail=..)
HTTPException(status_code, detail) == [status_code |-> status_code, detail |-> detail]

\* JSONResponse(status_code=.., content=..): status is the HTTP status of
\* the response, body its JSON document.
JSONResponse(status_code, content) == [status |-> status_code, body |-> content]

\* A validation handler that keeps FastAPI's status 422 for the response.
validation_exception_handler_422 ==
    JSONResponse(422, ErrorResponse(<<"Validation failed">>, 400))

\* validation_exception_handler, lines 129-145.
validation_exception_handler ==
    JSONResponse(400, ErrorResponse(<<"Validation failed">>, 400))

\* http_exception_handler, lines 148-166: every detail the endpoints raise is
\* an ErrorResponse dict, which is returned as it is.
http_exception_handler(exc) == JSONResponse(exc.status_code, exc.detail)

\* general_exception_handler, lines 169-181.
general_exception_handler ==
    JSONResponse(500, ErrorResponse(<<"Internal server error occurred">>, 500))

\* A raise HTTPException(status_code, detail=ErrorResponse(error, code)) as
\* the client sees it.
Raised(status_code, error, code) ==
    http_exception_handler(HTTPException(status_code, ErrorResponse(error, code)))

\* The response to a successful chat request: HTTP status 200.
ChatResponse(response, chat_id, model, message_count) ==
    [status |-> 200, response |-> response, chat_id |-> chat_id, model |-> model,
     message_count |-> message_count]

\* ChatSession(chat_id=chat_id, model=model, messages=[]): created_at and
\* updated_at are two readings of the clock.
new_session(chat_id, model, t1, t2) ==
    [chat_id |-> chat_id, model |-> model, messages |-> <<>>,
     created_at |-> t1, updated_at |-> t2]

\* A handler that opens a new session for every request.
asks_new_session_always(chat_id) == TRUE

\* "if not chat_id": None and the empty str ask for a new session.
asks_new_session(chat_id) == chat_id = None \/ chat_id = Some("")

\* The model field of the success response: request.model.
response_model_of_session(request_model, session_model) == session_model
response_model(request_model, session_model) == request_model

\* A handler that leaves the user turn for after the upstream call.
user_turn_after_upstream(session, message, t1, t2, max_pairs) == session

\* chat_manager.add_message(chat_id, "user", request.message), line 274.
user_turn_session(session, message, t1, t2, max_pairs) ==
    appended_session(session, "user", message, t1, t2, max_pairs)

\* A handler that answers without storing the reply.
reply_session_dropped(session, ai_response, t1, t2, max_pairs) == session

\* chat_manager.add_message(chat_id, "assistant", ai_response), line 296.
reply_session(session, ai_response, t1, t2, max_pairs) ==
    appended_session(session, "assistant", ai_response, t1, t2, max_pairs)

\* How many requests are inside chat_endpoint.
InFlight == Cardinality({slot \in Slots : inflight[slot] # Idle})

\* The event loop runs a handler when no other handler is running; a handler
\* that is suspended in an await is not running.
LoopFree == call_openrouter_suspends \/ InFlight = 0

\* The answer chat_endpoint gives to the request req.
Answer(req, response) ==
    Call("chat_endpoint", req.chat_id, <<req>>, "", Some(response), FALSE)

\* POST /chat up to the call of call_openrouter: the validation of the body,
\* then lines 264-282 of chat_endpoint.  In the record of the request, asked
\* is the chat_id of the body, message the validated message
\* (request.message), payload the messages that call_openrouter
\* sends, and seen is history: how many messages had been appended to the
\* session when the request came.
chat_begin(slot, chat_id, model, raw) ==
    /\ inflight[slot] = Idle
    /\ \A other \in Slots : other < slot => inflight[other] # Idle
    /\ LoopFree
    /\ asks_new_session(chat_id) => next_uuid < Cardinality(Uuids)
    /\ LET v == ChatRequest_message(raw)
           new == asks_new_session(chat_id)
           id == IF new THEN uuid4(next_uuid + 1) ELSE chat_id[1]
           early == [pc |-> "validation", asked |-> chat_id, chat_id |-> "",
                     model |-> model, message |-> raw]
       IN  IF v.exc # ""
           THEN /\ op' = Answer(early, validation_exception_handler)
                /\ UNCHANGED <<inflight, max_messages, active_sessions, files, now,
                               next_uuid, appended, returned>>
           ELSE \E t1 \in (IF new THEN ClockAfter(now) ELSE {now}) :
                \E t2 \in (IF new THEN ClockAfter(t1) ELSE {now}) :
                LET cache1 == IF new
                              THEN [active_sessions EXCEPT
                                       ![id] = Some(new_session(id, model, t1, t2))]
                              ELSE active_sessions
                    h == get_session_result(cache1, files, id)
                    cache2 == CacheAfterGet(cache1, id, h)
                    history == IF h.exc # "" \/ h.ret = None THEN <<>>
                               ELSE history_of(h.ret[1])
                    a == get_session_result(cache2, files, id)
                    req == [pc |-> "upstream", asked |-> chat_id, chat_id |-> id,
                            model |-> model, message |-> v.val, history |-> history,
                            payload |-> upstream_messages(v.val, history),
                            seen |-> Len(appended[id])]
                IN  IF h.exc # "" \/ a.exc # ""
                    THEN /\ op' = Answer(req, Raised(500, <<"Internal server error">>, 500))
                         /\ UNCHANGED <<inflight, max_messages, active_sessions, files, now,
                                        next_uuid, appended, returned>>
                    ELSE IF a.ret = None
                    THEN /\ op' = Answer(req, Raised(400, <<"Invalid chat session">>, 400))
                         /\ UNCHANGED <<inflight, max_messages, active_sessions, files, now,
                                        next_uuid, appended, returned>>
                    ELSE \E t3 \in ClockAfter(t2) : \E t4 \in ClockAfter(t3) :
                         LET session == user_turn_session(a.ret[1], v.val, t3, t4,
                                                          max_messages)
                         IN  /\ active_sessions' = [cache2 EXCEPT ![id] = Some(session)]
                             /\ files' = save_session_to_file(files, session)
                             /\ now' = t4
                             /\ next_uuid' = IF new THEN next_uuid + 1 ELSE next_uuid
                             /\ appended' = [appended EXCEPT ![id] = Append(@,
                                    [role |-> "user", content |-> v.val, timestamp |-> t3])]
                             /\ returned' = [returned EXCEPT ![id] = Some(session)]
                             /\ op' = Call("add_message", id, <<"user", v.val>>, "",
                                           Some(session), h.loaded)
                             /\ inflight' = [inflight EXCEPT ![slot] = req]
                             /\ UNCHANGED max_messages

\* The answer chat_endpoint gives to the request req after the upstream
\* call has ended with completion.
Answered(req, completion, response) ==
    Call("chat_endpoint", req.chat_id, <<req, completion>>, "", Some(response), FALSE)

\* POST /chat from the return of call_openrouter on: lines 286-332.
chat_finish(slot, completion) ==
    /\ inflight[slot] # Idle
    /\ LET req == inflight[slot]
           r == call_openrouter(req.message, openrouter_api_key, req.model, completion)
           a == get_session_result(active_sessions, files, req.chat_id)
       IN  /\ inflight' = [inflight EXCEPT ![slot] = Idle]
           /\ IF r.exc = "ValueError"
              THEN /\ op' = Answered(req, completion, Raised(400, <<"Invalid request">>, 400))
                   /\ UNCHANGED <<max_messages, active_sessions, files, now, next_uuid,
                                  appended, returned>>
              ELSE IF r.exc = "OpenRouterError"
              THEN /\ LET status_code == IF has_client_keyword(r.val) THEN 400 ELSE 502
                      IN  op' = Answered(req, completion, Raised(status_code,
                                   <<"OpenRouter API error: ">> \o r.val, status_code))
                   /\ UNCHANGED <<max_messages, active_sessions, files, now, next_uuid,
                                  appended, returned>>
              ELSE IF a.exc # ""
              THEN /\ op' = Answered(req, completion, Raised(500, <<"Internal server error">>, 500))
                   /\ UNCHANGED <<max_messages, active_sessions, files, now, next_uuid,
                                  appended, returned>>
              ELSE IF a.ret = None
              THEN /\ op' = Answered(req, completion, Raised(400, <<"Invalid request">>, 400))
                   /\ UNCHANGED <<max_messages, active_sessions, files, now, next_uuid,
                                  appended, returned>>
              ELSE \E t1 \in ClockAfter(now) : \E t2 \in ClockAfter(t1) :
                   LET session == reply_session(a.ret[1], r.val, t1, t2, max_messages)
                   IN  /\ active_sessions' =
                              [CacheAfterGet(active_sessions, req.chat_id, a)
                                  EXCEPT ![req.chat_id] = Some(session)]
                       /\ files' = save_session_to_file(files, session)
                       /\ now' = t2
                       /\ appended' = [appended EXCEPT ![req.chat_id] = Append(@,
                              [role |-> "assistant", content |-> r.val, timestamp |-> t1])]
                       /\ returned' = [returned EXCEPT ![req.chat_id] = Some(session)]
                       /\ op' = Answered(req, completion, ChatResponse(r.val, req.chat_id,
                                     response_model(req.model, session.model),
                                     Len(session.messages)))
                       /\ UNCHANGED <<max_messages, next_uuid>>

\* GET /chat/{chat_id}, lines 349-380.  An exception of get_session_info
\* leaves the endpoint and is answered by general_exception_handler.
get_chat_session(chat_id) ==
    LET r == get_session_result(active_sessions, files, chat_id)
        response == IF r.exc # "" THEN general_exception_handler
                    ELSE IF r.ret = None
                    THEN Raised(404, <<"Chat session ", chat_id, " not found">>, 404)
                    ELSE JSONResponse(200, info_of(r.ret[1]))
    IN  /\ active_sessions' = CacheAfterGet(active_sessions, chat_id, r)
        /\ op' = Call("get_chat_session", chat_id, <<>>, "", Some(response), r.loaded)
        /\ UNCHANGED <<inflight, max_messages, files, now, next_uuid, appended, returned>>

\* Lines 414-421: role, content and timestamp.isoformat() of each message.
messages_of(session) ==
    [i \in 1..Len(session.messages) |->
        [role |-> session.messages[i].role, content |-> session.messages[i].content,
         timestamp |-> isoformat(session.messages[i].timestamp)]]

\* GET /chat/{chat_id}/messages, lines 383-427.
get_chat_messages(chat_id) ==
    LET r == get_session_result(active_sessions, files, chat_id)
        response == IF r.exc # "" THEN general_exception_handler
                    ELSE IF r.ret = None
                    THEN Raised(404, <<"Chat session ", chat_id, " not found">>, 404)
                    ELSE JSONResponse(200, [chat_id |-> chat_id,
                                            messages |-> messages_of(r.ret[1]),
                                            total_count |-> Len(messages_of(r.ret[1]))])
    IN  /\ active_sessions' = CacheAfterGet(active_sessions, chat_id, r)
        /\ op' = Call("get_chat_messages", chat_id, <<>>, "", Some(response), r.loaded)
        /\ UNCHANGED <<inflight, max_messages, files, now, next_uuid, appended, returned>>

\* GET /chats, lines 430-452.
list_chat_sessions ==
    /\ op' = Call("list_chat_sessions", "", <<>>, "",
                  Some(JSONResponse(200, [sessions |-> stems(files),
                                          count |-> Cardinality(stems(files))])),
                  FALSE)
    /\ UNCHANGED <<inflight, max_messages, active_sessions, files, now, next_uuid, appended,
                   returned>>

-----------------------------------------------------------------------------
(* SpecChat: the server under POST /chat requests that create a session    *)
(* or name one, known or not, with every outcome of the upstream call, and *)
(* process restarts at any point, also in the middle of a request.         *)

\* The bodies a client sends with the k-th message of a behaviour.
RawMessages(k) ==
    {Some(<<TurnContent(k)>>), Some(<<" ", TurnContent(k), " ">>), Some(<<" ">>)}

\* What the upstream does with the k-th message of a behaviour.
Completions(k) ==
    {Completion(<<TurnContent(k)>>), Completion(<<" ", TurnContent(k), " ">>),
     Completion(<<>>), NoChoices, ClientRaises(<<"401">>), ClientRaises(<<"429">>)}

NextChat ==
    \/ \E slot \in Slots, chat_id \in {None, Some(uuid4(1)), Some(ForeignId)},
          model \in Models :
          \E raw \in RawMessages(TotalAppends + 1) :
             /\ TotalAppends + InFlight + 2 <= MaxChatAppends
             /\ asks_new_session(chat_id) => next_uuid = 0
             /\ chat_begin(slot, chat_id, model, raw)
    \/ \E slot \in Slots : \E completion \in Completions(TotalAppends + 1) :
          chat_finish(slot, completion)
    \/ restart

SpecChat == Init /\ [][NextChat]_vars

\* The server keeps taking steps while one is possible: a request that has
\* come is answered, and the process can always be restarted.
SpecChatFair == SpecChat /\ WF_vars(NextChat)

-----------------------------------------------------------------------------
(* SpecChatDir: POST /chat requests that name bad-id, over a storage       *)
(* directory in which something other than the store writes bad-id.json.   *)

NextChatDir ==
    \/ \E slot \in Slots, model \in Models :
          \E raw \in RawMessages(TotalAppends + 1) :
             /\ TotalAppends + InFlight + 2 <= MaxChatDirAppends
             /\ chat_begin(slot, Some(ForeignId), model, raw)
    \/ \E slot \in Slots : \E completion \in Completions(TotalAppends + 1) :
          chat_finish(slot, completion)
    \/ \E file \in ForeignFiles : external_write(ForeignId, file)
    \/ restart

SpecChatDir == Init /\ [][NextChatDir]_vars

-----------------------------------------------------------------------------
(* SpecErr: a run of POST /chat requests on one session whose upstream     *)
(* call succeeds or fails in every way, for a model name that contains     *)
(* none of the keywords the code looks for and for one that contains       *)
(* "invalid".  The run is long enough for the session to be trimmed        *)
(* before a request comes.                                                 *)

\* ChatRequest.model is any str.
ErrModels == {"model-x", "invalid-model"}

\* str(e) of the exceptions the client raises for a request with the model
\* given: the upstream's HTTP status, alone or with an error message that
\* quotes the model.  500 stands for every status the code does not look for.
UpstreamFailures(model) ==
    {<<"401">>, <<"400">>, <<"429">>, <<"404">>, <<"500">>,
     <<"404", model>>, <<"500", model>>}

ErrCompletions(k, model) ==
    {Completion(<<TurnContent(k)>>), Completion(<<>>), NoChoices}
    \cup {ClientRaises(text) : text \in UpstreamFailures(model)}

NextErr ==
    \/ \E slot \in Slots, chat_id \in {None, Some(uuid4(1))}, model \in ErrModels :
          /\ TotalAppends + InFlight + 2 <= MaxErrAppends
          /\ asks_new_session(chat_id) => next_uuid = 0
          /\ \E raw \in {Some(<<TurnContent(TotalAppends + 1)>>),
                         Some(<<" ", TurnContent(TotalAppends + 1), " ">>)} :
                chat_begin(slot, chat_id, model, raw)
    \/ \E slot \in Slots :
          /\ inflight[slot] # Idle
          /\ \E completion \in ErrCompletions(TotalAppends + 1, inflight[slot].model) :
                chat_finish(slot, completion)
    \/ restart

SpecErr == Init /\ [][NextErr]_vars

-----------------------------------------------------------------------------
(* SpecHttp: the four endpoints on bad-id and on an identifier that has no *)
(* session, with bodies of POST /chat that lack the message or hold an     *)
(* empty one, over a storage directory in which something other than the   *)
(* store writes bad-id.json.                                               *)

\* The message field of the k-th body: absent, empty, blank, or a text.
HttpMessages(k) == {None, Some(<<>>), Some(<<" ">>), Some(<<TurnContent(k)>>)}

NextHttp ==
    \/ \E slot \in Slots : \E raw \in HttpMessages(TotalAppends + 1) :
          /\ TotalAppends + InFlight + 2 <= MaxHttpAppends
          /\ chat_begin(slot, Some(ForeignId), "model-x", raw)
    \/ \E slot \in Slots : \E completion \in Completions(TotalAppends + 1) :
          chat_finish(slot, completion)
    \/ \E chat_id \in {ForeignId, uuid4(1)} : get_chat_session(chat_id)
    \/ \E chat_id \in {ForeignId, uuid4(1)} : get_chat_messages(chat_id)
    \/ list_chat_sessions
    \/ \E file \in ForeignFiles : external_write(ForeignId, file)
    \/ restart

SpecHttp == Init /\ [][NextHttp]_vars

-----------------------------------------------------------------------------
(* SpecClient: call_openrouter called with every kind of argument, as its  *)
(* own callers and the tests call it, and POST /chat requests on one       *)
(* session whose model is a name or the empty str (ChatRequest.model is    *)
(* Optional[str] without a minimum length).  The direct calls come before  *)
(* the first message is stored: the function reads nothing of the store.   *)

ClientMessages == {<<>>, <<" ">>, <<"m1">>, <<" ", "m1", " ">>}
ApiKeys == {"", openrouter_api_key}
ClientModels == {"", "model-x"}

\* What the upstream does: a reply, a blank reply, an empty one, no choices,
\* or an error.
ClientCompletions(k) ==
    {Completion(<<TurnContent(k)>>), Completion(<<" ">>), Completion(<<>>), NoChoices,
     ClientRaises(<<"401">>), ClientRaises(<<"500">>)}

\* await call_openrouter(message, api_key, model) from outside the server.
await_call_openrouter(message, api_key, model, completion) ==
    LET r == call_openrouter(message, api_key, model, completion)
    IN  /\ op' = Call("call_openrouter", "", <<message, api_key, model, completion>>,
                      r.exc, Some(r), FALSE)
        /\ UNCHANGED <<inflight, max_messages, active_sessions, files, now, next_uuid,
                       appended, returned>>

NextClient ==
    \/ \E message \in ClientMessages, api_key \in ApiKeys, model \in ClientModels :
          \E completion \in ClientCompletions(1) :
             /\ TotalAppends = 0
             /\ await_call_openrouter(message, api_key, model, completion)
    \/ \E slot \in Slots, chat_id \in {None, Some(uuid4(1))}, model \in ClientModels :
          /\ TotalAppends + InFlight + 2 <= MaxClientAppends
          /\ asks_new_session(chat_id) => next_uuid = 0
          /\ chat_begin(slot, chat_id, model, Some(<<TurnContent(TotalAppends + 1)>>))
    \/ \E slot \in Slots : \E completion \in ClientCompletions(TotalAppends + 1) :
          chat_finish(slot, completion)
    \/ restart

SpecClient == Init /\ [][NextClient]_vars

-----------------------------------------------------------------------------
(* SpecZero: a store constructed with max_messages = 0, which __init__      *)
(* takes as it takes every int, over one session.                          *)

InitZero ==
    /\ max_messages = 0
    /\ active_sessions = [id \in ChatIds |-> None]
    /\ files = [id \in ChatIds |-> NoFile]
    /\ now = 0
    /\ next_uuid = 0
    /\ appended = [id \in ChatIds |-> <<>>]
    /\ returned = [id \in ChatIds |-> None]
    /\ op = Call("init", "", <<>>, "", None, FALSE)
    /\ inflight = [slot \in Slots |-> Idle]

NextZero ==
    \/ \E model \in Models : next_uuid = 0 /\ create_session(model)
    \/ /\ TotalAppends < MaxZeroAppends
       /\ add_message(uuid4(1), TurnRole(TotalAppends + 1), TurnContent(TotalAppends + 1))
    \/ get_session(uuid4(1))
    \/ restart

SpecZero == InitZero /\ [][NextZero]_vars

-----------------------------------------------------------------------------
(* SpecTwo: two sessions in one server.  POST /chat requests open them and  *)
(* go to the one or the other in any order, add_message is called on       *)
(* either, and the server is restarted in between.                         *)

TwoCompletions(k) == {Completion(<<TurnContent(k)>>), ClientRaises(<<"500">>)}

NextTwo ==
    \/ \E slot \in Slots, chat_id \in {None} \cup {Some(id) : id \in Uuids} :
          /\ TotalAppends + InFlight + 2 <= MaxTwoAppends
          /\ chat_begin(slot, chat_id, "model-x", Some(<<TurnContent(TotalAppends + 1)>>))
    \/ \E slot \in Slots : \E completion \in TwoCompletions(TotalAppends + 1) :
          chat_finish(slot, completion)
    \/ \E chat_id \in Uuids :
          /\ TotalAppends + InFlight < MaxTwoAppends
          /\ InFlight = 0
          /\ add_message(chat_id, TurnRole(TotalAppends + 1), <<TurnContent(TotalAppends + 1)>>)
    \/ restart

SpecTwo == Init /\ [][NextTwo]_vars

-----------------------------------------------------------------------------
(* Properties *)

\* The file holds the text of a session document; the session it denotes.
Loadable(file) == file.kind = "json" /\ DecodeSession(file.doc).exc = ""
Decoded(file) == DecodeSession(file.doc).val

\* C1: after every successful add_message the session holds at most
\* 2 * max_messages messages, and they are the last
\* min(total, 2 * max_messages) messages ever appended to it, in order; the
\* call returns that session.
C1_TrimKeepsLastMessages ==
    LET Min(a, b) == IF a <= b THEN a ELSE b
        LastN(seq, n) == [i \in 1..n |-> seq[Len(seq) - n + i]]
    IN  /\ \A id \in ChatIds :
              active_sessions[id] # None =>
                LET msgs == active_sessions[id][1].messages
                    total == Len(appended[id])
                IN  /\ Len(msgs) <= 2 * max_messages
                    /\ msgs = LastN(appended[id], Min(total, 2 * max_messages))
        /\ (op.name = "add_message" /\ op.exc = "") =>
              /\ op.ret = active_sessions[op.chat_id]
              /\ Len(op.ret[1].messages) =
                    Min(Len(appended[op.chat_id]), 2 * max_messages)

\* With max_messages = 5, 24 appended messages leave the messages 15..24.
C1_Witness ==
    /\ max_messages = 5
    /\ op.name = "add_message" /\ op.exc = ""
    /\ Len(appended[uuid4(1)]) = 24
    /\ [i \in 1..10 |-> op.ret[1].messages[i].content] =
          [i \in 1..10 |-> TurnContent(14 + i)]

\* C2: a get_session for a session that add_message has returned, whose file
\* no crash has cut short, returns a session equal in every field to the one
\* the last add_message returned, also when it has to read it from the file.
C2_RoundTrip ==
    (/\ op.name = "get_session"
     /\ returned[op.chat_id] # None
     /\ files[op.chat_id] # Truncated) =>
        /\ op.exc = ""
        /\ op.ret = returned[op.chat_id]

\* A session with two messages or more, stamped at different times, read back
\* from its file after a restart.
C2_Witness ==
    /\ op.name = "get_session" /\ op.loaded
    /\ op.ret = returned[op.chat_id]
    /\ Len(op.ret[1].messages) >= 2
    /\ microsecond(op.ret[1].updated_at) # 0
    /\ op.ret[1].messages[1].timestamp # op.ret[1].updated_at

\* C7: while a session that has received a message is cached, its file
\* decodes to exactly the cached session, which holds at most
\* 2 * max_messages messages; when add_message returns, the file holds the
\* session it returns.
C7_FileHoldsCachedSession ==
    /\ \A id \in ChatIds :
          (active_sessions[id] # None /\ appended[id] # <<>>) =>
            /\ Loadable(files[id])
            /\ Some(Decoded(files[id])) = active_sessions[id]
            /\ Len(active_sessions[id][1].messages) <= 2 * max_messages
    /\ (op.name = "add_message" /\ op.exc = "") =>
          /\ Loadable(files[op.chat_id])
          /\ Some(Decoded(files[op.chat_id])) = op.ret

\* An add_message that trimmed has returned.
C7_Witness ==
    /\ op.name = "add_message" /\ op.exc = ""
    /\ Len(appended[op.chat_id]) > 2 * max_messages
    /\ Some(Decoded(files[op.chat_id])) = active_sessions[op.chat_id]

\* C8 as stated: list_sessions returns exactly the identifiers on which an
\* add_message has succeeded.
C8_ListedIffAppended ==
    op.name = "list_sessions" =>
        op.ret[1] = {id \in ChatIds : appended[id] # <<>>}

\* C8, amended: list_sessions returns every identifier on which an
\* add_message has succeeded; an identifier it returns on which none has
\* succeeded is one whose file a crash cut short in its first write; a
\* created session that no add_message has reached is not returned.
C8_ListedFiles ==
    op.name = "list_sessions" =>
        /\ \A id \in ChatIds : appended[id] # <<>> => id \in op.ret[1]
        /\ \A id \in op.ret[1] : appended[id] # <<>> \/ files[id] = Truncated
        /\ \A id \in ChatIds :
              (/\ active_sessions[id] # None
               /\ active_sessions[id][1].messages = <<>>
               /\ appended[id] = <<>>) => id \notin op.ret[1]

\* A created session with no message is cached and list_sessions does not
\* return it.
C8_Witness ==
    /\ op.name = "list_sessions"
    /\ uuid4(1) \notin op.ret[1]
    /\ active_sessions[uuid4(1)] # None

\* C3 as stated: an add_message that names an identifier which is neither
\* cached nor loadable from its file raises ValueError and leaves the cache
\* and every file as they were.
C3_UnknownAppendRaisesNotFound ==
    [][\A id \in ChatIds :
         (/\ op'.name = "add_message" /\ op'.chat_id = id
          /\ active_sessions[id] = None
          /\ ~Loadable(files[id])) =>
            /\ op'.exc = "ValueError"
            /\ active_sessions' = active_sessions
            /\ files' = files]_vars

\* C4: for an identifier that is not cached and has no file, get_session
\* returns None and get_conversation_history returns the empty list, and
\* neither raises.
C4_UnknownLookup ==
    [][\A id \in ChatIds :
         (/\ op'.chat_id = id
          /\ active_sessions[id] = None
          /\ files[id] = NoFile) =>
            /\ op'.name = "get_session" => (op'.exc = "" /\ op'.ret = None)
            /\ op'.name = "get_conversation_history" => (op'.exc = "" /\ op'.ret = <<>>)]_vars

\* The history of an identifier without session or file was asked for while
\* another session is cached and on disk.
C4_Witness ==
    /\ op.name = "get_conversation_history" /\ op.chat_id = ForeignId
    /\ op.exc = "" /\ op.ret = <<>>
    /\ files[ForeignId] = NoFile /\ active_sessions[ForeignId] = None
    /\ stems(files) # {}

\* C5: when <id>.json is cut short, is no JSON, or is a session document
\* that lacks a field, get_session(id) of an uncached id returns None, does
\* not raise, and leaves the cache and the files as they were.
C5_CorruptFileIsNotFound ==
    [][\A id \in ChatIds :
         (/\ op'.name = "get_session" /\ op'.chat_id = id
          /\ active_sessions[id] = None
          /\ files[id] \in {Truncated, Malformed} \cup LacksField) =>
            /\ op'.exc = "" /\ op'.ret = None
            /\ active_sessions' = active_sessions
            /\ files' = files]_vars

\* get_session has answered None for a file whose message lacks its timestamp.
C5_Witness ==
    /\ op.name = "get_session" /\ op.chat_id = ForeignId
    /\ op.exc = "" /\ op.ret = None
    /\ files[ForeignId] =
          JsonFile(JDict(ForeignSession(ForeignId,
              JList(<<JDict(Without(ForeignMessage, "timestamp"))>>))))
    /\ active_sessions[ForeignId] = None

\* C6 as stated: get_session, get_conversation_history, list_sessions and
\* get_session_info never raise, whatever the storage directory holds; the
\* only call that raises is an add_message.
C6_ReadsNeverRaise ==
    /\ op.name \in {"get_session", "get_conversation_history", "list_sessions",
                    "get_session_info"} => op.exc = ""
    /\ op.exc # "" => op.name = "add_message"

\* C9: create_session returns an identifier that was not in the cache, puts
\* under it a session with no message that is bound to the model given,
\* writes no file and leaves every other cache entry as it was.
C9_CreateFrame ==
    [][op'.name = "create_session" =>
         LET id == op'.chat_id
         IN  /\ op'.exc = "" /\ op'.ret = Some(id)
             /\ active_sessions[id] = None
             /\ active_sessions'[id] # None
             /\ active_sessions'[id][1].chat_id = id
             /\ active_sessions'[id][1].model = op'.arg[1]
             /\ active_sessions'[id][1].messages = <<>>
             /\ \A other \in ChatIds \ {id} :
                   active_sessions'[other] = active_sessions[other]
             /\ files' = files]_vars

\* A second session was created while the first, with a message, is cached
\* and on disk.
C9_Witness ==
    /\ op.name = "create_session" /\ op.chat_id = uuid4(2)
    /\ active_sessions[uuid4(2)] # None
    /\ active_sessions[uuid4(1)] # None
    /\ Len(active_sessions[uuid4(1)][1].messages) = 1
    /\ files[uuid4(1)] # NoFile /\ files[uuid4(2)] = NoFile

\* C10: get_session returns the cached session when there is one, without
\* reading the file; otherwise, when the file loads, it returns the loaded
\* session and puts it into the cache, changing no other entry.
C10_CacheThenDisk ==
    [][\A id \in ChatIds :
         (op'.name = "get_session" /\ op'.chat_id = id) =>
            /\ files' = files
            /\ IF active_sessions[id] # None
               THEN /\ op'.exc = "" /\ op'.ret = active_sessions[id]
                    /\ ~op'.loaded
                    /\ active_sessions' = active_sessions
               ELSE Loadable(files[id]) =>
                    /\ op'.exc = "" /\ op'.ret = Some(Decoded(files[id]))
                    /\ op'.loaded
                    /\ active_sessions' = [active_sessions EXCEPT ![id] = op'.ret]]_vars

\* get_session has answered from the cache while the file of that name no
\* longer holds a session.
C10_Witness ==
    /\ op.name = "get_session" /\ ~op.loaded
    /\ op.ret # None /\ op.ret = active_sessions[op.chat_id]
    /\ ~Loadable(files[op.chat_id])
    /\ files[op.chat_id] # NoFile

\* C11 as stated: while a request is inside chat_endpoint and its upstream
\* call has not returned, none of its messages has been appended to the
\* session.
C11_NoAppendBeforeUpstream ==
    \A slot \in Slots :
        inflight[slot] # Idle =>
            Len(appended[inflight[slot].chat_id]) = inflight[slot].seen

\* C11, amended: while the upstream call of a request has not returned, the
\* request has appended exactly one message, its user message, which is the
\* last message of the cached session and of the session in the file; the
\* reply is appended only after the call has returned.
C11_UserTurnBeforeUpstream ==
    \A slot \in Slots :
        inflight[slot] # Idle =>
            LET req == inflight[slot]
                all == appended[req.chat_id]
                turn == all[Len(all)]
                Last(seq) == seq[Len(seq)]
            IN  /\ Len(all) = req.seen + 1
                /\ turn.role = "user" /\ turn.content = req.message
                /\ active_sessions[req.chat_id] # None
                /\ active_sessions[req.chat_id][1].messages # <<>>
                /\ Last(active_sessions[req.chat_id][1].messages) = turn
                /\ Loadable(files[req.chat_id])
                /\ Decoded(files[req.chat_id]).messages # <<>>
                /\ Last(Decoded(files[req.chat_id]).messages) = turn

\* The second request on a session is waiting for the upstream.
C11_Witness ==
    /\ inflight[1] # Idle
    /\ inflight[1].seen = 2
    /\ Len(inflight[1].history) = 2
    /\ Len(appended[inflight[1].chat_id]) = 3

\* C12 as stated: a cached session that no request in flight names holds an
\* even number of messages.
C12_EvenInSteadyState ==
    \A id \in ChatIds :
        (/\ active_sessions[id] # None
         /\ \A slot \in Slots : inflight[slot] = Idle \/ inflight[slot].chat_id # id) =>
            Len(active_sessions[id][1].messages) % 2 = 0

C15_SuccessAfterReplyPersisted ==
    (op.name = "chat_endpoint" /\ op.ret[1].status = 200) =>
        LET req == op.arg[1]
            all == appended[req.chat_id]
            disk == Decoded(files[req.chat_id]).messages
        IN  /\ Len(all) = req.seen + 2
            /\ all[req.seen + 1].role = "user"
            /\ all[req.seen + 1].content = req.message
            /\ all[req.seen + 2].role = "assistant"
            /\ all[req.seen + 2].content = op.ret[1].response
            /\ Loadable(files[req.chat_id])
            /\ Len(disk) >= 2
            /\ disk[Len(disk) - 1] = all[req.seen + 1]
            /\ disk[Len(disk)] = all[req.seen + 2]
            /\ op.ret[1].message_count = Len(disk)
            /\ inflight = [slot \in Slots |-> Idle]

\* The second request on a session was answered 200.
C15_Witness ==
    /\ op.name = "chat_endpoint" /\ op.ret[1].status = 200
    /\ op.arg[1].seen = 2
    /\ op.ret[1].message_count = 2 * max_messages

\* C16: get_conversation_history returns one entry per message the session
\* holds, in order, each with the role and the content the message was
\* appended with and nothing else; for an identifier without session it
\* returns the empty list.  create_session binds the session to the model
\* given and an add_message leaves the model of the session as it was.
C16_HistoryListsMessages ==
    [][/\ (op'.name = "get_conversation_history" /\ op'.exc = "") =>
             IF active_sessions'[op'.chat_id] = None THEN op'.ret = <<>>
             ELSE LET msgs == active_sessions'[op'.chat_id][1].messages
                      all == appended[op'.chat_id]
                      n == Len(msgs)
                  IN  /\ Len(op'.ret) = n
                      /\ n <= Len(all)
                      /\ \A i \in 1..n :
                            op'.ret[i] = [role |-> all[Len(all) - n + i].role,
                                          content |-> all[Len(all) - n + i].content]
       /\ op'.name = "create_session" =>
             active_sessions'[op'.chat_id][1].model = op'.arg[1]
       /\ (op'.name = "add_message" /\ op'.exc = "") =>
             op'.ret[1].model =
                IF active_sessions[op'.chat_id] # None
                THEN active_sessions[op'.chat_id][1].model
                ELSE Decoded(files[op'.chat_id]).model]_vars

\* After create_session, add_message(A, "user", ..) and
\* add_message(A, "assistant", ..), the history of A is the two entries.
C16_Witness ==
    /\ op.name = "get_conversation_history" /\ op.chat_id = uuid4(1)
    /\ Len(appended[uuid4(1)]) = 2
    /\ op.ret = <<[role |-> "user", content |-> "m1"],
                  [role |-> "assistant", content |-> "m2"]>>
    /\ active_sessions[uuid4(1)][1].model \in Models

\* C17: no step changes the chat_id or the model of a session, in the cache
\* or in its file, and a load or a save carries both over; a request that
\* names another model leaves them too, and the 200 answer carries the
\* model and the chat_id of the request.
C17_IdAndModelFixed ==
    /\ [](/\ \A id \in ChatIds :
               LET cached == active_sessions[id]
                   stored == Bind(json_load(files[id]), DecodeSession)
               IN  /\ cached # None => cached[1].chat_id = id
                   /\ (cached # None /\ stored.exc = "") =>
                         /\ stored.val.chat_id = id
                         /\ stored.val.model = cached[1].model
          /\ (op.name = "chat_endpoint" /\ op.ret[1].status = 200) =>
                /\ op.ret[1].model = op.arg[1].model
                /\ op.ret[1].chat_id = op.arg[1].chat_id)
    /\ [][\A id \in ChatIds :
            LET before == Bind(json_load(files[id]), DecodeSession)
                after  == Bind(json_load(files'[id]), DecodeSession)
                cached == active_sessions[id]
                cached_after == active_sessions'[id]
            IN  /\ (cached # None /\ cached_after # None) =>
                      cached_after[1].model = cached[1].model
                /\ (files'[id] # files[id] /\ before.exc = "" /\ after.exc = "") =>
                      /\ after.val.chat_id = before.val.chat_id
                      /\ after.val.model = before.val.model
                /\ (cached = None /\ cached_after # None /\ before.exc = "") =>
                      cached_after[1].model = before.val.model]_vars

\* A request that named another model than the session's was answered 200:
\* the session, in the cache and in the file, is still bound to its own.
C17_Witness ==
    /\ op.name = "chat_endpoint" /\ op.ret[1].status = 200
    /\ op.arg[1].seen = 2
    /\ active_sessions[op.chat_id][1].model # op.arg[1].model
    /\ Decoded(files[op.chat_id]).model = active_sessions[op.chat_id][1].model
    /\ op.ret[1].model = op.arg[1].model

\* C18 as stated: every message of every session, in the cache and in the
\* files, has a content that is not empty and has no whitespace at either
\* end.
C18_ContentTrimmed ==
    LET Trimmed(messages) ==
            \A i \in 1..Len(messages) :
                /\ messages[i].content # <<>>
                /\ strip(messages[i].content) = messages[i].content
    IN  \A id \in ChatIds :
            /\ active_sessions[id] # None => Trimmed(active_sessions[id][1].messages)
            /\ Loadable(files[id]) => Trimmed(Decoded(files[id]).messages)

\* C19 as stated: every message a session holds has role user or assistant:
\* add_message stores no message with another role, and get_session returns
\* no session, cached or loaded from its file, that contains one.
C19_RoleEnumerated ==
    LET Enumerated(messages) ==
            \A i \in 1..Len(messages) : messages[i].role \in {"user", "assistant"}
    IN  /\ \A id \in ChatIds :
              active_sessions[id] # None => Enumerated(active_sessions[id][1].messages)
        /\ (op.name \in {"add_message", "get_session"} /\ op.ret # None)
              => Enumerated(op.ret[1].messages)

\* C20: a message keeps the role, the content and the timestamp it was
\* appended with, and the retained messages keep their order: at every
\* moment the messages a session holds in the cache, the messages its file
\* decodes to, and the messages of a session that get_session returns are,
\* field for field and in order, a run of the messages appended to it that
\* ends at the last message appended or, in a file, one the store has
\* written.
C20_MessagesImmutable ==
    LET LastOf(seq, n) == [i \in 1..n |-> seq[Len(seq) - n + i]]
        EndOf(messages, all) ==
            /\ Len(messages) <= Len(all)
            /\ messages = LastOf(all, Len(messages))
    IN  /\ \A id \in ChatIds :
              /\ active_sessions[id] # None =>
                    EndOf(active_sessions[id][1].messages, appended[id])
              /\ Loadable(files[id]) =>
                    EndOf(Decoded(files[id]).messages, appended[id])
        /\ (op.name = "get_session" /\ op.exc = "" /\ op.ret # None) =>
              EndOf(op.ret[1].messages, appended[op.chat_id])

\* A session that has lost its oldest messages to trimming, read back from
\* its file in a new process at a later time than its messages were
\* appended.
C20_Witness ==
    /\ op.name = "get_session" /\ op.loaded /\ op.ret # None
    /\ Len(op.ret[1].messages) >= 2
    /\ Len(appended[op.chat_id]) > Len(op.ret[1].messages)
    /\ op.ret[1].messages[1].timestamp < now
    /\ op.ret[1].messages[1].timestamp # op.ret[1].messages[2].timestamp

\* C21: created_at of a session is the same in the cache and in the file
\* after every step as before it; in every session held in the cache or in
\* a file, created_at <= the timestamp of each message <= updated_at and the
\* timestamps of the messages do not decrease along the sequence; a
\* successful add_message leaves updated_at no earlier than the timestamp of
\* the message it appended and no earlier than it was; get_session,
\* get_conversation_history, list_sessions and get_session_info change
\* updated_at of no session.
C21_Timestamps ==
    /\ [](LET Ordered(session) ==
                  /\ session.created_at <= session.updated_at
                  /\ \A i \in 1..Len(session.messages) :
                        /\ session.created_at <= session.messages[i].timestamp
                        /\ session.messages[i].timestamp <= session.updated_at
                        /\ i > 1 => session.messages[i - 1].timestamp
                                       <= session.messages[i].timestamp
          IN  \A id \in ChatIds :
                 /\ active_sessions[id] # None => Ordered(active_sessions[id][1])
                 /\ Loadable(files[id]) => Ordered(Decoded(files[id])))
    /\ [][LET Reading == op'.name \in {"get_session", "get_conversation_history",
                                        "list_sessions", "get_session_info"}
              \* created_at is kept and updated_at does not go back.
              Kept(old, new) ==
                  /\ new.created_at = old.created_at
                  /\ new.updated_at >= old.updated_at
                  /\ Reading => new.updated_at = old.updated_at
          IN  /\ \A id \in ChatIds :
                    /\ (active_sessions[id] # None /\ active_sessions'[id] # None
                        /\ active_sessions'[id] # active_sessions[id])
                          => Kept(active_sessions[id][1], active_sessions'[id][1])
                    /\ (active_sessions[id] = None /\ active_sessions'[id] # None
                        /\ Loadable(files[id]))
                          => Kept(Decoded(files[id]), active_sessions'[id][1])
                    /\ (files'[id] # files[id] /\ Loadable(files[id])
                        /\ Loadable(files'[id]))
                          => Kept(Decoded(files[id]), Decoded(files'[id]))
              /\ Reading => files' = files
              /\ (op'.name = "add_message" /\ op'.exc = "") =>
                    LET session == op'.ret[1]
                        last == session.messages[Len(session.messages)]
                    IN  /\ Some(session) = active_sessions'[op'.chat_id]
                        /\ session.updated_at = now'
                        /\ session.updated_at >= last.timestamp
                        /\ appended'[op'.chat_id][Len(appended'[op'.chat_id])].timestamp
                              = last.timestamp]_vars

\* A session that holds two messages or more and whose updated_at, the
\* present reading of the clock, is later than its created_at, read by
\* get_session_info.
C21_Witness ==
    /\ op.name = "get_session_info" /\ op.ret # None
    /\ active_sessions[op.chat_id] # None
    /\ Len(active_sessions[op.chat_id][1].messages) >= 2
    /\ active_sessions[op.chat_id][1].created_at < active_sessions[op.chat_id][1].updated_at
    /\ active_sessions[op.chat_id][1].updated_at = now

\* C22: no operation of the store removes a session: a file <id>.json that
\* exists before a step exists after it, and an identifier that is in the
\* cache before a step of the running process (any step but the end of the
\* process) is in the cache after it.
C22_NothingDeleted ==
    [][\A id \in ChatIds :
          /\ files[id].kind # "absent" => files'[id].kind # "absent"
          /\ (active_sessions[id] # None /\ op'.name \notin {"restart", "crash"})
                => active_sessions'[id] # None]_vars

\* In a new process, the second session is loaded from its file while the
\* first, loaded before it, is in the cache; both files are there.
C22_Witness ==
    /\ op.name = "get_session" /\ op.loaded /\ op.chat_id = uuid4(2)
    /\ active_sessions[uuid4(1)] # None /\ active_sessions[uuid4(2)] # None
    /\ files[uuid4(1)].kind # "absent" /\ files[uuid4(2)].kind # "absent"

\* C23: a POST /chat without chat_id whose body is valid brings exactly one
\* session into being, which had neither a cache entry nor a file, appends
\* its user turn to that session and, when it is answered 200, returns that
\* session's identifier after appending the reply to it; a POST /chat with
\* the chat_id of a session that is cached or loads from its file brings no
\* session into being, works on that session, returns the same chat_id, and
\* the messages it sends upstream begin with the messages the session held
\* when the request came.  No other step brings a session into being.
C23_NewOrExistingSession ==
    [][LET Exists(cache, dir, id) == cache[id] # None \/ Loadable(dir[id])
           Created == {id \in ChatIds : /\ \/ active_sessions'[id] # active_sessions[id]
                                           \/ files'[id] # files[id]
                                        /\ ~Exists(active_sessions, files, id)
                                        /\ Exists(active_sessions', files', id)}
           Begun == {slot \in Slots : inflight[slot] = Idle /\ inflight'[slot] # Idle}
           UserTurn(req) ==
               /\ Len(appended'[req.chat_id]) = Len(appended[req.chat_id]) + 1
               /\ appended'[req.chat_id][Len(appended'[req.chat_id])].role = "user"
               /\ appended'[req.chat_id][Len(appended'[req.chat_id])].content = req.message
               /\ \A other \in ChatIds \ {req.chat_id} : appended'[other] = appended[other]
       IN  /\ Begun = {} => Created = {}
           /\ \A slot \in Begun :
                 LET req == inflight'[slot]
                 IN  IF req.asked = None
                     THEN /\ Created = {req.chat_id}
                          /\ files[req.chat_id] = NoFile
                          /\ req.history = <<>>
                          /\ req.payload = <<[role |-> "user", content |-> req.message]>>
                          /\ UserTurn(req)
                          /\ appended[req.chat_id] = <<>>
                     ELSE /\ Created = {}
                          /\ req.chat_id = req.asked[1]
                          /\ Exists(active_sessions, files, req.chat_id)
                          /\ LET held == IF active_sessions[req.chat_id] # None
                                         THEN active_sessions[req.chat_id][1]
                                         ELSE Decoded(files[req.chat_id])
                             IN  /\ req.history = history_of(held)
                                 /\ Len(req.payload) = Len(held.messages) + 1
                                 /\ SubSeq(req.payload, 1, Len(held.messages))
                                       = history_of(held)
                          /\ UserTurn(req)
           /\ (op'.name = "chat_endpoint" /\ op'.ret[1].status = 200) =>
                 LET req == op'.arg[1]
                     all == appended'[req.chat_id]
                 IN  /\ op'.ret[1].chat_id = req.chat_id
                     /\ req.asked # None => op'.ret[1].chat_id = req.asked[1]
                     /\ Len(all) = Len(appended[req.chat_id]) + 1
                     /\ all[Len(all)].role = "assistant"
                     /\ all[Len(all)].content = op'.ret[1].response
                     /\ all[req.seen + 1].content = req.message
                     /\ \A other \in ChatIds \ {req.chat_id} :
                           appended'[other] = appended[other]]_vars

\* A request that names the session an earlier request created is answered
\* 200 with that chat_id, having sent the session's earlier turns upstream.
C23_Witness ==
    /\ op.name = "chat_endpoint" /\ op.ret[1].status = 200
    /\ op.arg[1].asked = Some(uuid4(1))
    /\ op.ret[1].chat_id = uuid4(1)
    /\ Len(op.arg[1].payload) >= 3
    /\ Len(appended[uuid4(1)]) = 4

\* C24: when a session that a request created has received nothing but the
\* turns of k successful requests, one after the other (its messages ever
\* appended are k pairs of a user turn and a reply), the 200 response of the
\* k-th reports message_count = min(2k, 2 * max_messages), which is the
\* message_count get_session_info gives and the number of messages the
\* session holds in the cache and in its file.
C24_MessageCount ==
    (op.name = "chat_endpoint" /\ op.ret[1].status = 200) =>
        LET id == op.ret[1].chat_id
            all == appended[id]
            k == Len(all) \div 2
            Min(a, b) == IF a <= b THEN a ELSE b
            Pairs == /\ Len(all) = 2 * k
                     /\ \A i \in 1..Len(all) : all[i].role = TurnRole(i)
            r == get_session_result(active_sessions, files, id)
        IN  Pairs =>
               /\ op.ret[1].message_count = Min(2 * k, 2 * max_messages)
               /\ r.exc = "" /\ r.ret # None
               /\ info_of(r.ret[1]).message_count = op.ret[1].message_count
               /\ Len(active_sessions[id][1].messages) = op.ret[1].message_count
               /\ Len(Decoded(files[id]).messages) = op.ret[1].message_count

\* The second successful request on a session that keeps one pair: four
\* messages appended, two reported.
C24_Witness ==
    /\ op.name = "chat_endpoint" /\ op.ret[1].status = 200
    /\ max_messages = 1
    /\ Len(appended[uuid4(1)]) = 4
    /\ \A i \in 1..4 : appended[uuid4(1)][i].role = TurnRole(i)
    /\ op.ret[1].message_count = 2

\* C25 as stated: a POST /chat that names a chat_id which is neither in the
\* cache nor loadable from its file is answered 400 without a call of the
\* upstream API, and the cache, the files and the messages appended are
\* after it as before.
C25_UnknownChatIdIs400 ==
    [][\A id \in ChatIds :
          (/\ InFlight = 0
           /\ op'.name \in {"chat_endpoint", "add_message"}
           /\ active_sessions[id] = None /\ ~Loadable(files[id])
           /\ IF op'.name = "chat_endpoint" THEN op'.arg[1].asked = Some(id)
              ELSE op'.chat_id = id /\ \E slot \in Slots : /\ inflight'[slot] # Idle
                                                           /\ inflight'[slot].asked # None)
          => /\ op'.name = "chat_endpoint"
             /\ op'.ret[1].status = 400
             /\ inflight' = inflight
             /\ active_sessions' = active_sessions
             /\ files' = files
             /\ appended' = appended]_vars

\* C26 as stated: an upstream failure is answered by its kind, whatever the
\* name of the model and whatever the error text quotes: 400 when the
\* upstream refused the authorization (401) or the format of the request
\* (400); 502 when it limited the rate (429), did not find the model (404),
\* answered with an empty response or failed in another way.
C26_ErrorsClassifiedByKind ==
    (op.name = "chat_endpoint" /\ Len(op.arg) = 2) =>
        LET completion == op.arg[2]
            Failed == \/ completion.kind \in {"no_choices", "raises"}
                      \/ completion.kind = "content" /\ completion.content = <<>>
            ClientError == /\ completion.kind = "raises"
                           /\ completion.text[1] \in {"401", "400"}
        IN  Failed => op.ret[1].status = (IF ClientError THEN 400 ELSE 502)

C28_Get404OrCounts ==
    op.name \in {"get_chat_session", "get_chat_messages"} =>
        IF active_sessions[op.chat_id] = None
        THEN op.ret[1].status = 404
        ELSE LET held == active_sessions[op.chat_id][1].messages
                 body == op.ret[1].body
             IN  /\ op.ret[1].status = 200
                 /\ op.name = "get_chat_session" => body.message_count = Len(held)
                 /\ op.name = "get_chat_messages" =>
                       /\ body.total_count = Len(held)
                       /\ Len(body.messages) = Len(held)
                       /\ \A i \in 1..Len(held) :
                             /\ body.messages[i].role = held[i].role
                             /\ body.messages[i].content = held[i].content
                             /\ fromisoformat(body.messages[i].timestamp).val
                                   = held[i].timestamp

\* C29: the messages a request sends upstream are the role and content of
\* the messages the session held before the request (the last
\* min(seen, 2 * max_messages) of the seen messages appended to it by then),
\* in order, followed by one entry with the role user and the request's
\* message, which is stripped and is no entry of the part before it; a
\* request on a session without messages sends that one entry.
C29_PayloadIsHistoryThenMessage ==
    LET Min(a, b) == IF a <= b THEN a ELSE b
        Sent(req) ==
            LET n == Min(req.seen, 2 * max_messages)
                before == [i \in 1..n |-> appended[req.chat_id][req.seen - n + i]]
                entry == [role |-> "user", content |-> req.message]
            IN  /\ Len(req.payload) = n + 1
                /\ \A i \in 1..n :
                      /\ req.payload[i] = [role |-> before[i].role,
                                           content |-> before[i].content]
                      /\ req.payload[i] # entry
                /\ req.payload[n + 1] = entry
                /\ req.message # <<>> /\ strip(req.message) = req.message
                /\ appended[req.chat_id][req.seen + 1].content = req.message
                /\ req.seen = 0 => req.payload = <<entry>>
    IN  /\ \A slot \in Slots : inflight[slot] # Idle => Sent(inflight[slot])
        /\ (op.name = "chat_endpoint" /\ Len(op.arg) = 2) => Sent(op.arg[1])

\* A request waits for the upstream on a session that keeps one pair and had
\* received three messages: it has sent the last two of them and its own.
C29_Witness ==
    /\ max_messages = 1
    /\ inflight[1] # Idle
    /\ inflight[1].seen = 3
    /\ Len(inflight[1].payload) = 3
    /\ inflight[1].payload[1].content = appended[inflight[1].chat_id][2].content

\* C30 as stated: a POST /chat whose body has no message, or an empty one,
\* is answered with the HTTP status 422.
C30_MissingOrEmptyIs422 ==
    (/\ op.name = "chat_endpoint"
     /\ op.arg[1].pc = "validation"
     /\ op.arg[1].message \in {None, Some(<<>>)}) =>
        op.ret[1].status = 422

\* C31: call_openrouter raises ValueError without calling the upstream when
\* the message is empty or blank, the API key is empty or the model is
\* empty; when the upstream returns no choices or an empty content it raises
\* OpenRouterError; the reply it returns is never empty, and no assistant
\* message that a request appends, holds in the cache or has in the file is
\* empty, nor is the response of a 200 answer.
C31_NoEmptyReply ==
    /\ op.name = "call_openrouter" =>
          LET message == op.arg[1]
              api_key == op.arg[2]
              model == op.arg[3]
              completion == op.arg[4]
              r == op.ret[1]
          IN  /\ (strip(message) = <<>> \/ api_key = "" \/ model = "") =>
                    r.exc = "ValueError" /\ ~r.called
              /\ (r.called /\ (completion.kind = "no_choices"
                                \/ (completion.kind = "content"
                                      /\ completion.content = <<>>))) =>
                    r.exc = "OpenRouterError"
              /\ r.exc = "" => r.val # <<>> /\ r.called
    /\ (op.name = "chat_endpoint" /\ op.ret[1].status = 200) => op.ret[1].response # <<>>
    /\ \A id \in ChatIds :
          /\ \A i \in 1..Len(appended[id]) :
                appended[id][i].role = "assistant" => appended[id][i].content # <<>>
          /\ active_sessions[id] # None =>
                \A i \in 1..Len(active_sessions[id][1].messages) :
                   active_sessions[id][1].messages[i].role = "assistant" =>
                      active_sessions[id][1].messages[i].content # <<>>
          /\ Loadable(files[id]) =>
                \A i \in 1..Len(Decoded(files[id]).messages) :
                   Decoded(files[id]).messages[i].role = "assistant" =>
                      Decoded(files[id]).messages[i].content # <<>>

\* The upstream returned a completion with an empty content to a request:
\* it was answered 502 and the session holds the user turn alone.
C31_Witness ==
    /\ op.name = "chat_endpoint"
    /\ Len(op.arg) = 2 /\ op.arg[2] = Completion(<<>>)
    /\ op.ret[1].status = 502
    /\ Len(appended[op.chat_id]) = 1
    /\ Len(Decoded(files[op.chat_id]).messages) = 1

\* C32 as stated: in a store constructed with max_messages = 0, after every
\* successful add_message the session holds at most 2 * 0 = 0 messages, in
\* the cache and in its file.
C32_ZeroPairsKeepNothing ==
    (max_messages = 0 /\ op.name = "add_message" /\ op.exc = "") =>
        /\ Len(active_sessions[op.chat_id][1].messages) <= 2 * max_messages
        /\ Len(Decoded(files[op.chat_id]).messages) <= 2 * max_messages

\* C33: when the upstream call of a request fails, or call_openrouter raises
\* ValueError, the step that answers changes no session, in the cache or in
\* a file: the user turn the request appended is the last message of the
\* session, cached and stored, and no reply was appended for the request.
\* The request that comes next to the session, which finds that user turn
\* as the last message appended, sends it upstream as the last entry of its
\* history.
C33_UserTurnStaysAfterFailure ==
    /\ [](/\ (op.name = "chat_endpoint" /\ Len(op.arg) = 2 /\ op.ret[1].status # 200) =>
                LET req == op.arg[1]
                    all == appended[req.chat_id]
                    cached == active_sessions[req.chat_id]
                    turn == [role |-> "user", content |-> req.message]
                IN  /\ call_openrouter(req.message, openrouter_api_key, req.model,
                                       op.arg[2]).exc # ""
                    /\ Len(all) = req.seen + 1
                    /\ all[Len(all)].role = "user" /\ all[Len(all)].content = req.message
                    /\ cached # None
                    /\ cached[1].messages[Len(cached[1].messages)].role = turn.role
                    /\ cached[1].messages[Len(cached[1].messages)].content = turn.content
                    /\ Loadable(files[req.chat_id])
                    /\ Decoded(files[req.chat_id]) = cached[1]
          /\ \A slot \in Slots :
               inflight[slot] # Idle =>
                   LET next == inflight[slot]
                       found == appended[next.chat_id]
                   IN  (next.seen >= 1 /\ found[next.seen].role = "user") =>
                           /\ next.history # <<>>
                           /\ next.history[Len(next.history)]
                                 = [role |-> "user", content |-> found[next.seen].content]
                           /\ next.payload[Len(next.payload) - 1]
                                 = [role |-> "user", content |-> found[next.seen].content])
    /\ [][(op'.name = "chat_endpoint" /\ Len(op'.arg) = 2 /\ op'.ret[1].status # 200) =>
             UNCHANGED <<active_sessions, files, appended>>]_vars

\* A request whose model is the empty str was answered 400 for the
\* ValueError of call_openrouter, and the next request to the session is
\* sending the first one's message upstream, before its own.
C33_Witness ==
    \E slot \in Slots :
        /\ inflight[slot] # Idle
        /\ inflight[slot].seen = 1
        /\ inflight[slot].history = <<[role |-> "user", content |-> <<TurnContent(1)>>]>>
        /\ Len(inflight[slot].payload) = 2
        /\ active_sessions[inflight[slot].chat_id][1].model = ""

\* C34: a successful add_message on a session, and every step of a POST
\* /chat request on it, leaves the cache entry and the file of every other
\* session as they were, in whatever order the requests on the two sessions
\* come.
C34_SessionIsolation ==
    [][op'.name \in {"add_message", "chat_endpoint"} =>
          \A other \in ChatIds \ {op'.chat_id} :
              /\ active_sessions'[other] = active_sessions[other]
              /\ files'[other] = files[other]
              /\ appended'[other] = appended[other]]_vars

\* A request on the second session was answered 200 while the first
\* session held a user turn without its reply.
C34_Witness ==
    /\ op.name = "chat_endpoint" /\ op.ret[1].status = 200
    /\ op.chat_id = uuid4(2)
    /\ active_sessions[uuid4(1)] # None
    /\ Len(active_sessions[uuid4(1)][1].messages) = 1
    /\ Len(Decoded(files[uuid4(1)]).messages) = 1
    /\ Len(Decoded(files[uuid4(2)]).messages) = 2

\* C35: over a storage directory that only the store writes, with restarts
\* and crashes in the middle of a write, the session cached under an
\* identifier and the session a call returns for it has that identifier as
\* its chat_id, a file that holds a session holds one whose chat_id is the
\* stem of the file, and an add_message writes no file but the one of its
\* chat_id.
C35_KeyIsChatId ==
    /\ [](/\ \A id \in ChatIds :
               LET stored == Bind(json_load(files[id]), DecodeSession)
               IN  /\ active_sessions[id] # None => active_sessions[id][1].chat_id = id
                   /\ stored.exc = "" => stored.val.chat_id = id
                   /\ returned[id] # None => returned[id][1].chat_id = id
          /\ (op.name \in {"get_session", "add_message", "get_session_info"}
                /\ op.exc = "" /\ op.ret # None) => op.ret[1].chat_id = op.chat_id
          /\ (op.name = "create_session") =>
                /\ op.ret[1] = op.chat_id
                /\ active_sessions[op.chat_id] # None)
    /\ [][op'.name = "add_message" =>
             /\ \A other \in ChatIds \ {op'.chat_id} : files'[other] = files[other]
             /\ op'.exc = "" =>
                   files'[op'.chat_id] = JsonFile(session_data(op'.ret[1]))]_vars

\* After a restart, get_session has loaded a session that had been trimmed
\* from its file, and the session carries the identifier it was asked for.
C35_Witness ==
    /\ op.name = "get_session" /\ op.loaded
    /\ op.ret[1].chat_id = op.chat_id
    /\ active_sessions[op.chat_id] = op.ret
    /\ Len(op.ret[1].messages) >= 1
    /\ Len(appended[op.chat_id]) > Len(op.ret[1].messages)

\* C36: when every request that came to a session was answered 200 (the
\* messages ever appended to it are pairs of a user turn and its reply) and
\* no request on it is in flight, the messages the session holds, in the
\* cache and in its file, are not empty, begin with a user turn, end with a
\* reply and alternate between the two, also when old messages have been
\* trimmed away.
C36_WholePairsInSteadyState ==
    LET Alternates(messages) ==
            /\ messages # <<>>
            /\ messages[1].role = "user"
            /\ messages[Len(messages)].role = "assistant"
            /\ \A i \in 1..(Len(messages) - 1) : messages[i].role # messages[i + 1].role
            /\ \A i \in 1..Len(messages) : messages[i].role \in {"user", "assistant"}
        Pairs(all) ==
            /\ Len(all) % 2 = 0
            /\ \A i \in 1..Len(all) : all[i].role = TurnRole(i)
        Steady(id) == \A slot \in Slots : inflight[slot] = Idle \/ inflight[slot].chat_id # id
    IN  \A id \in ChatIds :
            (Steady(id) /\ Pairs(appended[id])) =>
                /\ active_sessions[id] # None => Alternates(active_sessions[id][1].messages)
                /\ Loadable(files[id]) => Alternates(Decoded(files[id]).messages)

\* Two requests were answered 200 by a server that keeps one pair, and the
\* server was restarted: the file holds the second pair, whole.
C36_Witness ==
    /\ max_messages = 1
    /\ op.name = "restart"
    /\ Len(appended[uuid4(1)]) = 4
    /\ \A i \in 1..4 : appended[uuid4(1)][i].role = TurnRole(i)
    /\ Len(Decoded(files[uuid4(1)]).messages) = 2
    /\ Decoded(files[uuid4(1)]).messages[1].content = appended[uuid4(1)][3].content

\* C37: with max_messages >= 1 and a storage directory that only the store
\* writes, the history of every session, cached or in its file, and the
\* history every request has read, has at most 2 * max_messages entries,
\* and the messages a request sends upstream are at most
\* 2 * max_messages + 1, however many requests and restarts came before.
C37_PayloadBounded ==
    max_messages >= 1 =>
        /\ \A id \in ChatIds :
              /\ active_sessions[id] # None =>
                    Len(history_of(active_sessions[id][1])) <= 2 * max_messages
              /\ Loadable(files[id]) =>
                    Len(history_of(Decoded(files[id]))) <= 2 * max_messages
        /\ \A slot \in Slots :
              inflight[slot] # Idle =>
                  /\ Len(inflight[slot].history) <= 2 * max_messages
                  /\ Len(inflight[slot].payload) <= 2 * max_messages + 1
        /\ (op.name = "chat_endpoint" /\ Len(op.arg) = 2) =>
              /\ Len(op.arg[1].history) <= 2 * max_messages
              /\ Len(op.arg[1].payload) <= 2 * max_messages + 1

\* The server was restarted after three messages had come to a session that
\* keeps one pair; the request in flight has read two of them from the file
\* and sends three messages upstream.
C37_Witness ==
    \E slot \in Slots :
        /\ inflight[slot] # Idle
        /\ max_messages = 1
        /\ inflight[slot].seen = 3
        /\ op.name = "add_message" /\ op.loaded
        /\ Len(inflight[slot].history) = 2 * max_messages
        /\ Len(inflight[slot].payload) = 2 * max_messages + 1

\* C38: with max_messages >= 1, over a storage directory that only the
\* store writes and in which no crash has cut a write short, every
\* identifier that list_sessions returns has a session: get_session returns
\* it, it carries the identifier, and get_session_info reports a
\* message_count of at least 1 for it.
C38_ListedIsResolvable ==
    LET NoCrash == \A id \in ChatIds : files[id].kind # "truncated"
        Resolvable(id) ==
            LET r == get_session_result(active_sessions, files, id)
            IN  /\ r.exc = "" /\ r.ret # None
                /\ r.ret[1].chat_id = id
                /\ info_of(r.ret[1]).message_count >= 1
    IN  (max_messages >= 1 /\ NoCrash) =>
            /\ \A id \in stems(files) : Resolvable(id)
            /\ op.name = "list_sessions" =>
                  \A id \in op.ret[1] : Resolvable(id)

\* After a restart list_sessions has returned the identifier of a session
\* that is not in the cache and that has a message in its file.
C38_Witness ==
    /\ op.name = "list_sessions"
    /\ op.ret[1] = {uuid4(1)}
    /\ active_sessions[uuid4(1)] = None
    /\ Loadable(files[uuid4(1)])
    /\ info_of(Decoded(files[uuid4(1)])).message_count >= 1

\* C39: get_session, get_conversation_history, get_session_info and
\* list_sessions leave every file as it is, and the clock, the identifiers
\* and the messages of every session; the one change they make is that a
\* lookup of a session that is not cached and whose file loads puts the
\* session of the file into the cache under the identifier asked for.  A
\* lookup of an identifier without a file, or with a file that does not
\* load, leaves the cache as it is, as does list_sessions.
C39_ReadsOnlyFillCache ==
    [][op'.name \in {"get_session", "get_conversation_history", "get_session_info",
                     "list_sessions"} =>
          /\ UNCHANGED <<files, now, next_uuid, appended, returned, max_messages, inflight>>
          /\ \A id \in ChatIds :
                active_sessions'[id] # active_sessions[id] =>
                    /\ id = op'.chat_id
                    /\ op'.loaded
                    /\ active_sessions[id] = None
                    /\ Loadable(files[id])
                    /\ active_sessions'[id] = Some(Decoded(files[id]))
          /\ (op'.name = "list_sessions" \/ ~Loadable(files[op'.chat_id])) =>
                active_sessions' = active_sessions]_vars

\* get_conversation_history has loaded a session from its file: the file is
\* as it was written and the cache holds the session of the file.
C39_Witness ==
    /\ op.name = "get_conversation_history" /\ op.loaded
    /\ Loadable(files[op.chat_id])
    /\ active_sessions[op.chat_id] = Some(Decoded(files[op.chat_id]))
    /\ Len(op.ret) >= 1

====
